---- MODULE Spec2Model ----
(***************************************************************************)
(* A model of the lukascript runtime: the line classifier (parser.rs), the *)
(* execution engine (engine.rs), the operator-expression evaluator         *)
(* (operators.rs), the variable coercion model (variables.rs) and the      *)
(* standard library (stdlib.rs).                                           *)
(*                                                                         *)
(* Text (identifiers, expressions, string contents) is a sequence of       *)
(* one-character strings, so that the character-level algorithms of the    *)
(* source (is_numeric, the operator march, parsing and formatting of       *)
(* integers) are computed as the code computes them.                       *)
(***************************************************************************)
EXTENDS Integers, Sequences, FiniteSets, TLC

VARIABLES
    prog,     \* Vec<Instruction> handed to State::execute
    line,     \* State.line
    frames,   \* State.frames
    status,   \* "running" | "halted" | "error" | "panic"
    err,      \* the fatal-error report: [msg, arg, line]
    out,      \* characters written to standard output
    hist,     \* indices of the instructions executed so far, in order
    src       \* the source program of the run: [family, a, b, k, lines]

vars == <<prog, line, frames, status, err, out, hist, src>>

(* ------------------------------------------------------------------ *)
(* Bounds of the model                                                  *)
(* ------------------------------------------------------------------ *)
MaxInt == 3          \* integer literals of the loop headers range over 0..MaxInt
MaxFact == 5         \* fact(n) is run for n in 1..MaxFact
MaxGenLen == 3       \* enumerated programs have at most MaxGenLen lines
MaxSteps == 90       \* a run executes at most MaxSteps instructions
MaxFrames == 9       \* a run stops once the frame stack is deeper than MaxFrames

(* ------------------------------------------------------------------ *)
(* Text                                                                 *)
(* ------------------------------------------------------------------ *)
Digits == {"0", "1", "2", "3", "4", "5", "6", "7", "8", "9"}

DigitChars == <<"0", "1", "2", "3", "4", "5", "6", "7", "8", "9">>

DigitVal(c) == CHOOSE d \in 0..9 : DigitChars[d + 1] = c

Front(s) == SubSeq(s, 1, Len(s) - 1)

Last(s) == s[Len(s)]

QUOTE == "\""

NEWLINE == "\n"

\* char::is_numeric over every character (true of the empty text)
is_numeric(value) == \A i \in 1..Len(value) : value[i] \in Digits

RECURSIVE DigitsToInt(_)
DigitsToInt(s) ==
    IF s = <<>> THEN 0 ELSE DigitsToInt(Front(s)) * 10 + DigitVal(Last(s))

\* str::parse::<isize>: an optional sign and at least one digit
ParseIsize(s) ==
    IF s = <<>> THEN [ok |-> FALSE, n |-> 0]
    ELSE IF s[1] \in {"+", "-"}
         THEN LET rest == Tail(s)
              IN IF rest # <<>> /\ is_numeric(rest)
                 THEN [ok |-> TRUE,
                       n |-> IF s[1] = "-" THEN 0 - DigitsToInt(rest)
                             ELSE DigitsToInt(rest)]
                 ELSE [ok |-> FALSE, n |-> 0]
         ELSE IF is_numeric(s) THEN [ok |-> TRUE, n |-> DigitsToInt(s)]
              ELSE [ok |-> FALSE, n |-> 0]

RECURSIVE NatToString(_)
NatToString(n) ==
    IF n < 10 THEN <<DigitChars[n + 1]>>
    ELSE NatToString(n \div 10) \o <<DigitChars[(n % 10) + 1]>>

\* isize::to_string
int_to_string(value) ==
    IF value < 0 THEN <<"-">> \o NatToString(0 - value) ELSE NatToString(value)

string_to_int(value) == ParseIsize(value)

bool_to_int(value) == IF value = FALSE THEN 0 ELSE 1

int_to_bool(value) == IF value = 0 THEN FALSE ELSE TRUE

(* ------------------------------------------------------------------ *)
(* Variables (variables.rs)                                             *)
(* ------------------------------------------------------------------ *)
IntV(n) == [kind |-> "Integer", n |-> n, b |-> FALSE, s |-> <<>>]

BoolV(b) == [kind |-> "Boolean", n |-> 0, b |-> b, s |-> <<>>]

StrV(s) == [kind |-> "Str", n |-> 0, b |-> FALSE, s |-> s]

is_string(v) == v.kind = "Str"

is_string_and_so_is(self, variable) == is_string(self) /\ is_string(variable)

\* detect_conflicting_string_types rejecting a non-string assigned over non-numeric text
DetectRejectsOverText(self, variable) ==
    IF self.kind = "Str"
    THEN IF variable.kind = "Str"
         THEN ~(is_numeric(self.s) /\ is_numeric(variable.s))
         ELSE ~is_numeric(self.s)
    ELSE IF variable.kind = "Str"
         THEN ~is_numeric(variable.s)
         ELSE FALSE

\* TRUE when the assignment is the fatal cast error
detect_conflicting_string_types(self, variable) ==
    IF self.kind = "Str"
    THEN IF variable.kind = "Str"
         THEN ~(is_numeric(self.s) /\ is_numeric(variable.s))
         ELSE FALSE
    ELSE IF variable.kind = "Str"
         THEN ~is_numeric(variable.s)
         ELSE FALSE

\* [ok, n]: ok is FALSE when the unwrap of the parse panics
as_integer(v) ==
    CASE v.kind = "Integer" -> [ok |-> TRUE, n |-> v.n]
      [] v.kind = "Boolean" -> [ok |-> TRUE, n |-> bool_to_int(v.b)]
      [] OTHER -> string_to_int(v.s)

\* set_from_integer replacing the variable by an Integer whatever its kind
SetFromIntegerAsInteger(self, value) == IntV(value)

set_from_integer(self, value) ==
    CASE self.kind = "Integer" -> IntV(value)
      [] self.kind = "Boolean" -> BoolV(int_to_bool(value))
      [] OTHER -> StrV(int_to_string(value))

(* Results of an operation that may end the run.  st is "ok", "error" (the *)
(* fatal-error channel) or "panic" (a Rust panic); lined says whether the  *)
(* message carries the script's line number.                               *)
ValOk(v) == [st |-> "ok", val |-> v, msg |-> "", arg |-> <<>>, lined |-> FALSE]

ValError(m, a, l) ==
    [st |-> "error", val |-> IntV(0), msg |-> m, arg |-> a, lined |-> l]

ValPanic(m) ==
    [st |-> "panic", val |-> IntV(0), msg |-> m, arg |-> <<>>, lined |-> FALSE]

CAST_ERROR == "attempt to cast non-numeric string with other type"

PARSE_PANIC == "unwrap on ParseIntError"

\* the tail of Variable::set, with i = variable.as_integer()
SetFromInteger(self, i) ==
    IF i.ok THEN ValOk(set_from_integer(self, i.n)) ELSE ValPanic(PARSE_PANIC)

\* Variable::set: the new value of self
set(self, variable) ==
    IF is_string_and_so_is(self, variable) THEN ValOk(variable)
    ELSE IF detect_conflicting_string_types(self, variable)
         THEN ValError(CAST_ERROR, <<>>, FALSE)
         ELSE SetFromInteger(self, as_integer(variable))

\* self's kind holding a.n + b.n, where a and b are the operands' as_integer()
AddIntegers(self, a, b) ==
    IF a.ok /\ b.ok THEN ValOk(set_from_integer(self, a.n + b.n))
    ELSE ValPanic(PARSE_PANIC)

MulIntegers(self, a, b) ==
    IF a.ok /\ b.ok THEN ValOk(set_from_integer(self, a.n * b.n))
    ELSE ValPanic(PARSE_PANIC)

SubIntegers(self, a, b) ==
    IF a.ok /\ b.ok THEN ValOk(set_from_integer(self, a.n - b.n))
    ELSE ValPanic(PARSE_PANIC)

add(self, rhs) == AddIntegers(self, as_integer(self), as_integer(rhs))

add_assign(self, rhs) == AddIntegers(self, as_integer(self), as_integer(rhs))

mul_assign(self, rhs) == MulIntegers(self, as_integer(self), as_integer(rhs))

\* the subtraction the evaluator applies for '-'
sub_assign(self, rhs) == SubIntegers(self, as_integer(self), as_integer(rhs))

\* "Less" | "Greater" | "Equal" | "panic", from the two as_integer()
CompareIntegers(self_as_int, rhs_as_int) ==
    IF ~(self_as_int.ok /\ rhs_as_int.ok) THEN "panic"
    ELSE IF self_as_int.n < rhs_as_int.n THEN "Less"
    ELSE IF self_as_int.n > rhs_as_int.n THEN "Greater"
    ELSE "Equal"

partial_cmp(self, rhs) == CompareIntegers(as_integer(self), as_integer(rhs))

\* "true" | "false" | "panic", from the two as_integer()
EqualIntegers(self_as_int, rhs_as_int) ==
    IF ~(self_as_int.ok /\ rhs_as_int.ok) THEN "panic"
    ELSE IF self_as_int.n = rhs_as_int.n THEN "true" ELSE "false"

\* eq comparing the tagged values themselves (the derived equality of VariableType)
EqOfVariableType(self, rhs) == IF self = rhs THEN "true" ELSE "false"

eq(self, rhs) == EqualIntegers(as_integer(self), as_integer(rhs))

\* printed_string writing a Boolean as its canonical integer
PrintedAsInteger(v) ==
    CASE v.kind = "Integer" -> int_to_string(v.n)
      [] v.kind = "Boolean" -> int_to_string(bool_to_int(v.b))
      [] OTHER -> v.s

printed_string(v) ==
    CASE v.kind = "Integer" -> int_to_string(v.n)
      [] v.kind = "Boolean" -> IF v.b THEN <<"t", "r", "u", "e">>
                               ELSE <<"f", "a", "l", "s", "e">>
      [] OTHER -> v.s

(* ------------------------------------------------------------------ *)
(* Operator expressions (operators.rs)                                  *)
(* ------------------------------------------------------------------ *)
operator_char_to_token_type(c) ==
    CASE c = "*" -> "Multiply"
      [] c = "-" -> "Minus"
      [] c = "<" -> "LessThan"
      [] c = ">" -> "GreaterThan"
      [] OTHER -> "Value"

is_token_operator(token_type) ==
    token_type \in {"Multiply", "Minus", "LessThan", "GreaterThan"}

is_char_operator(c) == is_token_operator(operator_char_to_token_type(c))

value_contains_operator(value) ==
    \E i \in 1..Len(value) : is_char_operator(value[i])

ExprVariable(v) == [k |-> "Variable", v |-> v, op |-> ""]

ExprOperator(op) == [k |-> "Operator", v |-> IntV(0), op |-> op]

\* the Boolean that replaces the accumulator: c is the partial_cmp, want the ordering
Comparison(c, want) ==
    IF c = "panic" THEN ValPanic(PARSE_PANIC) ELSE ValOk(BoolV(c = want))

\* one (operator, operand) step of the fold
ApplyOperatorReversed(last_operator, initial_variable, variable) ==
    CASE last_operator = "Multiply" -> mul_assign(variable, initial_variable)
      [] last_operator = "Minus" -> sub_assign(variable, initial_variable)
      [] last_operator = "LessThan" ->
            Comparison(partial_cmp(variable, initial_variable), "Less")
      [] last_operator = "GreaterThan" ->
            Comparison(partial_cmp(variable, initial_variable), "Greater")
      [] OTHER -> ValPanic("not yet implemented")

ApplyOperator(last_operator, initial_variable, variable) ==
    CASE last_operator = "Multiply" -> mul_assign(initial_variable, variable)
      [] last_operator = "Minus" -> sub_assign(initial_variable, variable)
      [] last_operator = "LessThan" ->
            Comparison(partial_cmp(initial_variable, variable), "Less")
      [] last_operator = "GreaterThan" ->
            Comparison(partial_cmp(initial_variable, variable), "Greater")
      [] OTHER -> ValPanic("not yet implemented")

RECURSIVE FoldExpression(_, _, _, _, _)
\* the rest of the fold after the operator was applied with result r
FoldNext(expression, i, r, last_operator) ==
    IF r.st # "ok" THEN r
    ELSE FoldExpression(expression, i + 1, r.val, TRUE, last_operator)

FoldExpression(expression, i, initial_variable, last_was_variable, last_operator) ==
    IF i > Len(expression) THEN ValOk(initial_variable)
    ELSE IF expression[i].k = "Operator"
         THEN IF ~last_was_variable THEN ValPanic("explicit panic")
              ELSE FoldExpression(expression, i + 1, initial_variable, FALSE,
                                  expression[i].op)
         ELSE IF last_was_variable THEN ValPanic("explicit panic")
              ELSE FoldNext(expression, i,
                            ApplyOperator(last_operator, initial_variable,
                                          expression[i].v),
                            last_operator)

evaluate_operator_expression(expression) ==
    IF expression[1].k = "Variable"
    THEN FoldExpression(expression, 2, expression[1].v, TRUE, "Multiply")
    ELSE ValPanic("explicit panic")

(* ------------------------------------------------------------------ *)
(* Frames and scopes (engine.rs)                                        *)
(* ------------------------------------------------------------------ *)
None == <<>>

Some(x) == <<x>>

is_some(o) == o # <<>>

unwrap(o) == o[1]

Root ==
    [kind |-> "Root", variable |-> <<>>, start_line |-> 0, end_value |-> <<>>,
     caller_line |-> 0, target_variable |-> None]

ForLoop(variable, start_line, end_value) ==
    [kind |-> "ForLoop", variable |-> variable, start_line |-> start_line,
     end_value |-> end_value, caller_line |-> 0, target_variable |-> None]

Function(caller_line, target_variable) ==
    [kind |-> "Function", variable |-> <<>>, start_line |-> 0, end_value |-> <<>>,
     caller_line |-> caller_line, target_variable |-> target_variable]

IfStatement ==
    [kind |-> "IfStatement", variable |-> <<>>, start_line |-> 0,
     end_value |-> <<>>, caller_line |-> 0, target_variable |-> None]

EmptyMap == <<>>

MapInsert(m, k, v) == [x \in DOMAIN m \cup {k} |-> IF x = k THEN v ELSE m[x]]

FrameContext(frame) ==
    [frame |-> frame, variables |-> EmptyMap, functions |-> EmptyMap]

add_frame(fs, frame) == Append(fs, FrameContext(frame))

pop(fs) == SubSeq(fs, 1, Len(fs) - 1)

innermost_frame(fs) == fs[Len(fs)]

SetMax(S) == CHOOSE x \in S : \A y \in S : y <= x

SetMin(S) == CHOOSE x \in S : \A y \in S : x <= y

\* the index of the innermost frame that holds the variable, 0 when none does
GetVariableInActivation(fs, name) ==
    LET F == {i \in 1..Len(fs) : fs[i].frame.kind = "Function"}
        S == {i \in 1..Len(fs) :
                 /\ name \in DOMAIN fs[i].variables
                 /\ (i = 1 \/ \A k \in F : k <= i)}
    IN IF S = {} THEN 0 ELSE SetMax(S)

get_variable(fs, name) ==
    LET S == {i \in 1..Len(fs) : name \in DOMAIN fs[i].variables}
    IN IF S = {} THEN 0 ELSE SetMax(S)

NOT_EXIST == "variable does not exist"

\* the temporary int of a numeric text, p being the parse of the text
IntegerLiteral(p) == IF p.ok THEN ValOk(IntV(p.n)) ELSE ValPanic(PARSE_PANIC)

\* a clone of the variable, i being the frame get_variable found
VariableClone(fs, value, i) ==
    IF i = 0 THEN ValError(NOT_EXIST, value, TRUE) ELSE ValOk(fs[i].variables[value])

evaluate_inner_value(fs, value) ==
    IF is_numeric(value) THEN IntegerLiteral(ParseIsize(value))
    ELSE IF Len(value) >= 2 /\ value[1] = QUOTE /\ Last(value) = QUOTE
         THEN ValOk(StrV(SubSeq(value, 2, Len(value) - 1)))
         ELSE VariableClone(fs, value, get_variable(fs, value))

WordItem(word) == [k |-> "Variable", word |-> word, op |-> ""]

OperatorItem(op) == [k |-> "Operator", word |-> <<>>, op |-> op]

\* the march of evaluate_value: the words and operators of the text, in order
RECURSIVE March(_, _, _, _)
March(value, i, word, expression) ==
    IF i > Len(value) THEN expression
    ELSE IF is_char_operator(value[i]) /\ i # Len(value)
         THEN March(value, i + 1, <<>>,
                    expression \o <<WordItem(word),
                                    OperatorItem(operator_char_to_token_type(value[i]))>>)
    ELSE IF is_char_operator(value[i])
         THEN March(value, i + 1, <<>>,
                    expression \o <<WordItem(Append(word, value[i])),
                                    OperatorItem(operator_char_to_token_type(value[i]))>>)
    ELSE IF i = Len(value)
         THEN March(value, i + 1, <<>>,
                    Append(expression, WordItem(Append(word, value[i]))))
    ELSE March(value, i + 1, Append(word, value[i]), expression)

\* the expression of the evaluated operands, or the first failure among them
ReduceItems(items, evaluated) ==
    IF \E i \in 1..Len(items) : evaluated[i].st # "ok"
    THEN evaluated[SetMin({i \in 1..Len(items) : evaluated[i].st # "ok"})]
    ELSE evaluate_operator_expression(
             [i \in 1..Len(items) |->
                IF items[i].k = "Variable" THEN ExprVariable(evaluated[i].val)
                ELSE ExprOperator(items[i].op)])

EvaluateItems(fs, items) ==
    ReduceItems(items,
                [i \in 1..Len(items) |->
                   IF items[i].k = "Variable"
                   THEN evaluate_inner_value(fs, items[i].word)
                   ELSE ValOk(IntV(0))])

evaluate_value(fs, value) ==
    IF ~value_contains_operator(value) THEN evaluate_inner_value(fs, value)
    ELSE EvaluateItems(fs, March(value, 1, <<>>, <<>>))

(* The outcome of (part of) an instruction: the frames at its end, or at the *)
(* moment the run was ended, and the line it leaves in State.line.           *)
ROk(fs, ln) ==
    [st |-> "ok", frames |-> fs, line |-> ln, msg |-> "", arg |-> <<>>,
     lined |-> FALSE, out |-> <<>>]

\* State::error: the message carries line + 1
RError(fs, m) ==
    [st |-> "error", frames |-> fs, line |-> 0, msg |-> m, arg |-> <<>>,
     lined |-> TRUE, out |-> <<>>]

\* a failed evaluation or coercion v ends the instruction
RFail(fs, v) ==
    [st |-> v.st, frames |-> fs, line |-> 0, msg |-> v.msg, arg |-> v.arg,
     lined |-> v.lined, out |-> <<>>]

\* the instruction completed: State.line is set to ln
Goto(r, ln) == IF r.st = "ok" THEN [r EXCEPT !.line = ln] ELSE r

WithOut(r, o) == [r EXCEPT !.out = o]

TypeKeywords ==
    {<<"i", "n", "t">>, <<"b", "o", "o", "l">>, <<"s", "t", "r", "i", "n", "g">>}

is_str_valid_type(name) == name \in TypeKeywords

MakeVariableUnchecked(fs, name, variable_type) ==
    IF name \notin DOMAIN fs[Len(fs)].variables
    THEN ROk([fs EXCEPT ![Len(fs)].variables =
                  MapInsert(fs[Len(fs)].variables, name, variable_type)], 0)
    ELSE RError(fs, "variable already exists")

make_variable_of_type(fs, name, variable_type) ==
    LET len == Len(fs)
    IN IF is_numeric(name) \/ value_contains_operator(name) \/ is_str_valid_type(name)
       THEN RError(fs, "invalid variable name")
       ELSE IF name \notin DOMAIN fs[len].variables
            THEN ROk([fs EXCEPT ![len].variables =
                          MapInsert(fs[len].variables, name, variable_type)], 0)
            ELSE RError(fs, "variable already exists")

\* the variable of frame i takes the outcome r of its set
StoreVariable(fs, name, i, r) ==
    IF r.st # "ok" THEN RFail(fs, r)
    ELSE ROk([fs EXCEPT ![i].variables = MapInsert(fs[i].variables, name, r.val)], 0)

\* get_variable(name).set(&evaluated), i being the frame get_variable found
SetInFrame(fs, name, i, evaluated) ==
    IF i = 0 THEN RFail(fs, ValError(NOT_EXIST, name, TRUE))
    ELSE StoreVariable(fs, name, i, set(fs[i].variables[name], evaluated))

SetVariableTo(fs, name, evaluated) ==
    SetInFrame(fs, name, get_variable(fs, name), evaluated)

\* set_variable once the value is evaluated
SetEvaluated(fs, name, evaluated) ==
    IF evaluated.st # "ok" THEN RFail(fs, evaluated)
    ELSE SetVariableTo(fs, name, evaluated.val)

set_variable(fs, name, value) == SetEvaluated(fs, name, evaluate_value(fs, value))

\* get_variable(name).set(&evaluated) after make_variable_of_type gave m
ThenSet(m, name, evaluated) ==
    IF m.st # "ok" THEN m ELSE SetVariableTo(m.frames, name, evaluated)

\* make_variable_of_type(name, zero) followed by get_variable(name).set(&evaluated)
MakeAndSet(fs, name, zero, evaluated) ==
    ThenSet(make_variable_of_type(fs, name, zero), name, evaluated)

(* ------------------------------------------------------------------ *)
(* Standard library (stdlib.rs)                                         *)
(* ------------------------------------------------------------------ *)
PRINT == <<"p", "r", "i", "n", "t">>

INPUT == <<"i", "n", "p", "u", "t">>

RECURSIVE PrintedArguments(_, _)
PrintedArguments(arguments, i) ==
    IF i > Len(arguments) THEN <<>>
    ELSE printed_string(arguments[i]) \o PrintedArguments(arguments, i + 1)

\* stdin is [eof, text]: the next line of standard input, or its end
stdlib_function(function, arguments, stdin) ==
    CASE function = PRINT ->
            [did_run |-> TRUE, ret |-> None, panic |-> FALSE,
             out |-> PrintedArguments(arguments, 1) \o <<NEWLINE>>]
      [] function = INPUT ->
            [did_run |-> TRUE, ret |-> Some(StrV(stdin.text)), panic |-> stdin.eof,
             out |-> PrintedArguments(arguments, 1)]
      [] OTHER ->
            [did_run |-> FALSE, ret |-> None, panic |-> FALSE, out |-> <<>>]

(* ------------------------------------------------------------------ *)
(* Instructions (engine.rs, State::execute)                             *)
(* ------------------------------------------------------------------ *)
one == IntV(1)

\* the loop variable is set to the start value, m being its creation
InitLoopVariable(m, ln, ins) ==
    IF m.st # "ok" THEN m ELSE Goto(set_variable(m.frames, ins.value, ins.start), ln)

\* the header's branch taken when start < end
EnterLoop(fs, ln, ins) ==
    IF is_numeric(ins.value) THEN RError(fs, "invalid variable name")
    ELSE InitLoopVariable(
             make_variable_of_type(add_frame(fs, ForLoop(ins.value, ln, ins.end)),
                                   ins.value, IntV(0)),
             ln, ins)

\* c is the comparison of the start value with the end value
LoopHeaderTest(fs, ln, ins, c) ==
    IF c = "panic" THEN RFail(fs, ValPanic(PARSE_PANIC))
    ELSE IF c = "Less" THEN EnterLoop(fs, ln, ins)
    ELSE ROk(fs, ln)

LoopHeader(fs, ln, ins, start_value, end_value) ==
    IF start_value.st # "ok" THEN RFail(fs, start_value)
    ELSE IF end_value.st # "ok" THEN RFail(fs, end_value)
    ELSE LoopHeaderTest(fs, ln, ins, partial_cmp(start_value.val, end_value.val))

ExecFromValueToValue(fs, ln, ins) ==
    LoopHeader(fs, ln, ins, evaluate_value(fs, ins.start), evaluate_value(fs, ins.end))

\* IfBranch skipping the block but not its done
IfBranchStopsAtDone(fs, ln, ins, e, holds) ==
    IF e = "panic" THEN RFail(fs, ValPanic(PARSE_PANIC))
    ELSE IF e = holds THEN ROk(add_frame(fs, IfStatement), ln)
    ELSE ROk(fs, ins.last_line - 1)

\* e is the equality of the two values, holds what the header asks of it
IfBranch(fs, ln, ins, e, holds) ==
    IF e = "panic" THEN RFail(fs, ValPanic(PARSE_PANIC))
    ELSE IF e = holds THEN ROk(add_frame(fs, IfStatement), ln)
    ELSE ROk(fs, ins.last_line)

IfTest(fs, ln, ins, holds, left, right) ==
    IF left.st # "ok" THEN RFail(fs, left)
    ELSE IF right.st # "ok" THEN RFail(fs, right)
    ELSE IfBranch(fs, ln, ins, eq(left.val, right.val), holds)

\* IfValueIsValue (holds = "true") and IfValueIsNotValue (holds = "false")
ExecIf(fs, ln, ins, holds) ==
    IfTest(fs, ln, ins, holds, evaluate_value(fs, ins.left_value),
           evaluate_value(fs, ins.right_value))

\* ExecFunctionDeclaration registering the function in the Root frame
DeclareFunctionInRoot(fs, ln, ins) ==
    IF ins.name \in DOMAIN fs[1].functions
    THEN RError(fs, "function already declared")
    ELSE ROk([fs EXCEPT ![1].functions =
                  MapInsert(fs[1].functions, ins.name,
                            [line |-> ins.first_line, arguments |-> ins.arguments])],
             ins.last_line)

ExecFunctionDeclaration(fs, ln, ins) ==
    LET len == Len(fs)
        inserted == [fs EXCEPT ![len].functions =
                        MapInsert(fs[len].functions, ins.name,
                                  [line |-> ins.first_line,
                                   arguments |-> ins.arguments])]
    IN IF ins.name \in DOMAIN fs[len].functions
       THEN RError(inserted, "function already declared")
       ELSE ROk(inserted, ins.last_line)

\* the function of the innermost frame that declares the name
found_function(fs, function) ==
    LET S == {i \in 1..Len(fs) : function \in DOMAIN fs[i].functions}
    IN IF S = {} THEN None ELSE Some(fs[SetMax(S)].functions[function])

RECURSIVE PassArguments(_, _, _, _)
\* the next parameters, m being the creation and set of parameter i
PassNext(m, desired_args, values, i) ==
    IF m.st # "ok" THEN m ELSE PassArguments(m.frames, desired_args, values, i + 1)

\* PassArgument evaluating the argument after the parameter was created
PassArgumentLate(fs, desired_args, values, i, value_evaluated_early) ==
    PassNext(SetEvaluated(make_variable_of_type(fs, desired_args[i].name,
                                                desired_args[i].variable_type).frames,
                          desired_args[i].name,
                          evaluate_value(
                              make_variable_of_type(fs, desired_args[i].name,
                                                    desired_args[i].variable_type).frames,
                              values[i])),
             desired_args, values, i)

PassArgument(fs, desired_args, values, i, value_evaluated_early) ==
    IF value_evaluated_early.st # "ok" THEN RFail(fs, value_evaluated_early)
    ELSE PassNext(MakeAndSet(fs, desired_args[i].name, desired_args[i].variable_type,
                             value_evaluated_early.val),
                  desired_args, values, i)

\* the loop that passes the arguments, from parameter i on
PassArguments(fs, desired_args, values, i) ==
    IF i > Len(desired_args) THEN ROk(fs, 0)
    ELSE PassArgument(fs, desired_args, values, i, evaluate_value(fs, values[i]))

CallUserFunction(fs, ln, ins, info) ==
    IF Len(info.arguments) # Len(ins.values)
    THEN RError(add_frame(fs, Function(ln, ins.target_variable)),
                "invalid number of function arguments")
    ELSE Goto(PassArguments(add_frame(fs, Function(ln, ins.target_variable)),
                            info.arguments, ins.values, 1),
              info.line)

\* what follows the library's answer lib
LibraryResult(fs, ln, ins, lib) ==
    IF lib.panic THEN WithOut(RFail(fs, ValPanic("unwrap on None")), lib.out)
    ELSE IF lib.did_run
         THEN IF is_some(ins.target_variable) /\ is_some(lib.ret)
              THEN WithOut(Goto(MakeAndSet(fs, unwrap(ins.target_variable),
                                           unwrap(lib.ret), unwrap(lib.ret)), ln),
                           lib.out)
              ELSE WithOut(ROk(fs, ln), lib.out)
         ELSE RError(fs, "unknown function")

\* Dispatch asking the library before looking at the arguments' evaluations
DispatchBeforeArguments(fs, ln, ins, stdin, evaluated) ==
    IF ins.function \notin {PRINT, INPUT} THEN RError(fs, "unknown function")
    ELSE IF \E i \in 1..Len(evaluated) : evaluated[i].st # "ok"
    THEN RFail(fs, evaluated[SetMin({i \in 1..Len(evaluated) : evaluated[i].st # "ok"})])
    ELSE LibraryResult(fs, ln, ins,
                       stdlib_function(ins.function,
                                       [i \in 1..Len(evaluated) |-> evaluated[i].val],
                                       stdin))

\* evaluated: the evaluations of the arguments, in order
Dispatch(fs, ln, ins, stdin, evaluated) ==
    IF \E i \in 1..Len(evaluated) : evaluated[i].st # "ok"
    THEN RFail(fs, evaluated[SetMin({i \in 1..Len(evaluated) : evaluated[i].st # "ok"})])
    ELSE LibraryResult(fs, ln, ins,
                       stdlib_function(ins.function,
                                       [i \in 1..Len(evaluated) |-> evaluated[i].val],
                                       stdin))

CallStdlib(fs, ln, ins, stdin) ==
    Dispatch(fs, ln, ins, stdin,
             [i \in 1..Len(ins.values) |-> evaluate_value(fs, ins.values[i])])

\* found: the user function of that name, if any
CallFound(fs, ln, ins, stdin, found) ==
    IF is_some(found) THEN CallUserFunction(fs, ln, ins, unwrap(found))
    ELSE CallStdlib(fs, ln, ins, stdin)

ExecFunctionCall(fs, ln, ins, stdin) ==
    CallFound(fs, ln, ins, stdin, found_function(fs, ins.function))

\* the index of the nearest Function frame, 0 when there is none
FunctionFrame(fs) ==
    LET S == {i \in 1..Len(fs) : fs[i].frame.kind = "Function"}
    IN IF S = {} THEN 0 ELSE SetMax(S)

\* Unwind popping the innermost frame only
UnwindInnermost(fs, k) == SubSeq(fs, 1, Len(fs) - 1)

\* the frames left when every frame from index k up is popped
Unwind(fs, k) == SubSeq(fs, 1, k - 1)

\* Return to a call that asked for a value, evaluated before any frame is popped
ReturnValue(fs, k, evaluated) ==
    IF evaluated.st # "ok" THEN RFail(fs, evaluated)
    ELSE Goto(MakeAndSet(Unwind(fs, k), unwrap(fs[k].frame.target_variable),
                         evaluated.val, evaluated.val),
              fs[k].frame.caller_line)

\* Return with the nearest Function frame at index k
ReturnFrom(fs, k, ins) ==
    IF k = 0 THEN RError(fs, "cannot return outside of a function")
    ELSE IF is_some(fs[k].frame.target_variable)
         THEN ReturnValue(fs, k, evaluate_value(fs, ins.value))
         ELSE ROk(Unwind(fs, k), fs[k].frame.caller_line)

ExecReturn(fs, ln, ins) == ReturnFrom(fs, FunctionFrame(fs), ins)

\* LoopBack keeping what the finished iteration declared in the frame
LoopBackWithoutIncrement(fs, frame, i, incremented) ==
    ROk([fs EXCEPT ![Len(fs)].variables =
                       MapInsert(EmptyMap, frame.variable,
                                 fs[i].variables[frame.variable]),
                   ![Len(fs)].functions = EmptyMap],
        frame.start_line)

LoopBackKeepsBindings(fs, frame, i, incremented) ==
    ROk([fs EXCEPT ![i].variables =
             MapInsert(fs[i].variables, frame.variable, incremented.val)],
        frame.start_line)

\* LoopBack continuing at the header line itself
LoopBackToHeader(fs, frame, i, incremented) ==
    ROk([[fs EXCEPT ![i].variables =
              MapInsert(fs[i].variables, frame.variable, incremented.val)]
            EXCEPT ![Len(fs)].variables =
                       MapInsert(EmptyMap, frame.variable, incremented.val),
                   ![Len(fs)].functions = EmptyMap],
        frame.start_line - 1)

\* loop back: the frame is cleared and holds the incremented loop variable only
LoopBack(fs, frame, i, incremented) ==
    ROk([[fs EXCEPT ![i].variables =
              MapInsert(fs[i].variables, frame.variable, incremented.val)]
            EXCEPT ![Len(fs)].variables =
                       MapInsert(EmptyMap, frame.variable, incremented.val),
                   ![Len(fs)].functions = EmptyMap],
        frame.start_line)

\* LoopBranch ending the loop only when the loop variable + 1 exceeds the end value
LoopBranchOffByOne(fs, ln, frame, i, c) ==
    IF c = "panic" THEN RFail(fs, ValPanic(PARSE_PANIC))
    ELSE IF c = "Greater" THEN ROk(pop(fs), ln)
    ELSE LoopBack(fs, frame, i, add_assign(fs[i].variables[frame.variable], one))

\* c is the comparison of the loop variable + 1 with the end value
LoopBranch(fs, ln, frame, i, c) ==
    IF c = "panic" THEN RFail(fs, ValPanic(PARSE_PANIC))
    ELSE IF c \in {"Greater", "Equal"} THEN ROk(pop(fs), ln)
    ELSE LoopBack(fs, frame, i, add_assign(fs[i].variables[frame.variable], one))

LoopTest(fs, ln, frame, i, next, end) ==
    IF next.st # "ok" THEN RFail(fs, next)
    ELSE IF end.st # "ok" THEN RFail(fs, end)
    ELSE LoopBranch(fs, ln, frame, i, partial_cmp(next.val, end.val))

\* i is the frame where get_variable finds the loop variable
LoopEnd(fs, ln, frame, i) ==
    IF i = 0 THEN RFail(fs, ValError(NOT_EXIST, frame.variable, TRUE))
    ELSE LoopTest(fs, ln, frame, i, add(fs[i].variables[frame.variable], one),
                  evaluate_value(fs, frame.end_value))

DoneForLoop(fs, ln, frame) ==
    LoopEnd(fs, ln, frame, get_variable(fs, frame.variable))

\* DoneFunction returning to the caller whether or not a target was requested
DoneFunctionIgnoresTarget(fs, ln, frame) == ROk(pop(fs), frame.caller_line)

DoneFunction(fs, ln, frame) ==
    IF is_some(frame.target_variable)
    THEN RError(pop(fs), "function did not return valid value")
    ELSE ROk(pop(fs), frame.caller_line)

\* DoneIfStatement leaving the conditional's frame on the stack
DoneIfStatementKeepsFrame(fs, ln, frame) == ROk(fs, ln)

DoneIfStatement(fs, ln, frame) == ROk(pop(fs), ln)

\* DoneRoot popping the root frame like any other frame
DoneRootPops(fs, ln, frame) == ROk(pop(fs), ln)

\* DoneRoot popping the root frame before it reports the error
DoneRootPopsThenFails(fs, ln, frame) ==
    RError(pop(fs), "attempt to terminate root frame")

DoneRoot(fs, ln, frame) == RError(fs, "attempt to terminate root frame")

DoneFrame(fs, ln, frame) ==
    CASE frame.kind = "ForLoop" -> DoneForLoop(fs, ln, frame)
      [] frame.kind = "Function" -> DoneFunction(fs, ln, frame)
      [] frame.kind = "IfStatement" -> DoneIfStatement(fs, ln, frame)
      [] OTHER -> DoneRoot(fs, ln, frame)

ExecDone(fs, ln) ==
    IF fs = <<>> THEN RError(fs, "no appropriate frame")
    ELSE DoneFrame(fs, ln, innermost_frame(fs).frame)

\* the declaration once its initializer is evaluated
Declare(fs, ln, ins, zero, evaluated) ==
    IF evaluated.st # "ok" THEN RFail(fs, evaluated)
    ELSE Goto(MakeAndSet(fs, ins.name, zero, evaluated.val), ln)

\* ExecDeclaration creating the binding before it evaluates the initializer
DeclarationBindsFirst(fs, ln, ins, zero) ==
    IF make_variable_of_type(fs, ins.name, zero).st # "ok"
    THEN make_variable_of_type(fs, ins.name, zero)
    ELSE Goto(set_variable(make_variable_of_type(fs, ins.name, zero).frames,
                           ins.name, ins.value), ln)

\* IntDeclaration, BoolDeclaration, StringDeclaration: zero is the kind's zero value
ExecDeclaration(fs, ln, ins, zero) ==
    Declare(fs, ln, ins, zero, evaluate_value(fs, ins.value))

ExecAssignment(fs, ln, ins) == Goto(set_variable(fs, ins.name, ins.value), ln)

(* ------------------------------------------------------------------ *)
(* Instructions and the line classifier (parser.rs)                     *)
(* ------------------------------------------------------------------ *)
Blank ==
    [op |-> "NoOp", value |-> <<>>, start |-> <<>>, end |-> <<>>,
     left_value |-> <<>>, right_value |-> <<>>, first_line |-> 0, last_line |-> 0,
     name |-> <<>>, arguments |-> <<>>, function |-> <<>>, values |-> <<>>,
     target_variable |-> None]

InsNoOp == Blank

InsFromValueToValue(value, start, end) ==
    [Blank EXCEPT !.op = "FromValueToValue", !.value = value, !.start = start,
                  !.end = end]

InsIfValueIsValue(left_value, right_value) ==
    [Blank EXCEPT !.op = "IfValueIsValue", !.left_value = left_value,
                  !.right_value = right_value]

InsIfValueIsNotValue(left_value, right_value) ==
    [Blank EXCEPT !.op = "IfValueIsNotValue", !.left_value = left_value,
                  !.right_value = right_value]

InsDone == [Blank EXCEPT !.op = "Done"]

\* arguments: a sequence of [name, variable_type]
InsFunctionDeclaration(name, arguments) ==
    [Blank EXCEPT !.op = "FunctionDeclaration", !.name = name,
                  !.arguments = arguments]

InsFunctionCall(function, values, target_variable) ==
    [Blank EXCEPT !.op = "FunctionCall", !.function = function, !.values = values,
                  !.target_variable = target_variable]

InsReturn(value) == [Blank EXCEPT !.op = "Return", !.value = value]

InsIntDeclaration(name, value) ==
    [Blank EXCEPT !.op = "IntDeclaration", !.name = name, !.value = value]

InsBoolDeclaration(name, value) ==
    [Blank EXCEPT !.op = "BoolDeclaration", !.name = name, !.value = value]

InsStringDeclaration(name, value) ==
    [Blank EXCEPT !.op = "StringDeclaration", !.name = name, !.value = value]

InsAssignment(name, value) ==
    [Blank EXCEPT !.op = "Assignment", !.name = name, !.value = value]

\* the type of the first token of the line an instruction is classified from
FirstToken(l) ==
    CASE l.op = "NoOp" -> "None"
      [] l.op = "FromValueToValue" -> "For"
      [] l.op \in {"IfValueIsValue", "IfValueIsNotValue"} -> "If"
      [] l.op = "FunctionDeclaration" -> "Function"
      [] l.op = "Done" -> "Done"
      [] l.op \in {"IntDeclaration", "BoolDeclaration", "StringDeclaration"} -> "Type"
      [] l.op = "Return" -> "Return"
      [] OTHER -> "Value"

\* the scan from 0-based line i with inner_frames open; -1: "does not terminate"
RECURSIVE EndOfFrameFrom(_, _, _)
EndOfFrameFrom(lines, i, inner_frames) ==
    IF i >= Len(lines) THEN 0 - 1
    ELSE LET first_token == FirstToken(lines[i + 1])
             inner == IF first_token \in {"For", "If", "Function"}
                      THEN inner_frames + 1
                      ELSE IF first_token = "Done" THEN inner_frames - 1
                      ELSE inner_frames
         IN IF first_token = "None" THEN EndOfFrameFrom(lines, i + 1, inner_frames)
            ELSE IF inner = 0 THEN i
            ELSE EndOfFrameFrom(lines, i + 1, inner)

get_corresponding_end_of_frame(lines, ln) == EndOfFrameFrom(lines, ln + 1, 1)

NeedsEnd(l) ==
    l.op \in {"IfValueIsValue", "IfValueIsNotValue", "FunctionDeclaration"}

\* FALSE when parse_lines ends with "frame declared on line ... does not terminate"
ParseOk(lines) ==
    \A i \in 1..Len(lines) :
        NeedsEnd(lines[i]) => get_corresponding_end_of_frame(lines, i - 1) >= 0

parse_lines(lines) ==
    [i \in 1..Len(lines) |->
        IF NeedsEnd(lines[i])
        THEN [lines[i] EXCEPT
                 !.first_line = IF lines[i].op = "FunctionDeclaration" THEN i - 1 ELSE 0,
                 !.last_line = get_corresponding_end_of_frame(lines, i - 1)]
        ELSE lines[i]]

(* ------------------------------------------------------------------ *)
(* Source programs of the runs                                          *)
(* ------------------------------------------------------------------ *)
nV == <<"v">>

nT == <<"t">>

nN == <<"n">>

nR == <<"r">>

nX == <<"x">>

nC == <<"c">>

nS == <<"s">>

nF == <<"f">>

nG == <<"g">>

nFact == <<"f", "a", "c", "t">>

nTrue == <<"t", "r", "u", "e">>

nFalse == <<"f", "a", "l", "s", "e">>

Lit(n) == int_to_string(n)

Quoted(text) == <<QUOTE>> \o text \o <<QUOTE>>

CallPrint(values) == InsFunctionCall(PRINT, values, None)

Scenario(family, a, b, k, j, lines) ==
    [family |-> family, a |-> a, b |-> b, k |-> k, j |-> j, lines |-> lines]

\* for v from a to b / body k / done / tail j; body 4 is fn f / done / print(v)
ForBody(k) ==
    CASE k = 1 -> <<CallPrint(<<nV>>)>>
      [] k = 2 -> <<InsIntDeclaration(nT, nV), CallPrint(<<nT>>)>>
      [] k = 3 -> <<CallPrint(<<Quoted(<<"x">>)>>)>>
      [] OTHER -> <<InsFunctionDeclaration(nF, <<>>), InsDone, CallPrint(<<nV>>)>>

ForTail(j) ==
    CASE j = 1 -> <<>>
      [] j = 2 -> <<CallPrint(<<nT>>)>>
      [] OTHER -> <<CallPrint(<<nV>>)>>

ForLines(a, b, k, j) ==
    <<InsFromValueToValue(nV, Lit(a), Lit(b))>> \o ForBody(k) \o <<InsDone>>
        \o ForTail(j)

ForScenarios ==
    {Scenario("for", a, b, k, j, ForLines(a, b, k, j)) :
        a \in 0..MaxInt, b \in 0..MaxInt, k \in 1..4, j \in 1..3}

\* fn fact: int n / if n is 1 / return 1 / done / fact(n-1) -> r / return n*r /
\* done / fact(a) -> x
FactLines(a) ==
    <<InsFunctionDeclaration(nFact, <<[name |-> nN, variable_type |-> IntV(0)]>>),
      InsIfValueIsValue(nN, Lit(1)),
      InsReturn(Lit(1)),
      InsDone,
      InsFunctionCall(nFact, <<nN \o <<"-">> \o Lit(1)>>, Some(nR)),
      InsReturn(nN \o <<"*">> \o nR),
      InsDone,
      InsFunctionCall(nFact, <<Lit(a)>>, Some(nX))>>

FactScenarios == {Scenario("fact", a, 0, 0, 0, FactLines(a)) : a \in 1..MaxFact}

\* the operand texts of the comparison and coercion programs
Operands ==
    <<Lit(0), Lit(1), Lit(5), Lit(12), nTrue, nFalse,
      Quoted(<<"0">>), Quoted(<<"7">>), Quoted(<<"0", "5">>), Quoted(<<"5">>),
      Quoted(<<"a", "b", "c">>), Quoted(<<>>)>>

OperandIds == 1..Len(Operands)

\* if A is B (k = 1) or if A is not B (k = 2) / int t = 5 / print(t) / done / print(t)
IfLines(a, b, k) ==
    <<IF k = 1 THEN InsIfValueIsValue(Operands[a], Operands[b])
      ELSE InsIfValueIsNotValue(Operands[a], Operands[b]),
      InsIntDeclaration(nT, Lit(5)),
      CallPrint(<<nT>>),
      InsDone,
      CallPrint(<<nT>>)>>

IfScenarios ==
    {Scenario("if", a, b, k, 0, IfLines(a, b, k)) :
        a \in OperandIds, b \in OperandIds, k \in 1..2}

\* bool c = A<B (k = 1) or bool c = A>B (k = 2)
CmpLines(a, b, k) ==
    <<InsBoolDeclaration(nC, Operands[a] \o <<IF k = 1 THEN "<" ELSE ">">>
                                 \o Operands[b])>>

CmpScenarios ==
    {Scenario("cmp", a, b, k, 0, CmpLines(a, b, k)) :
        a \in OperandIds, b \in OperandIds, k \in 1..2}

\* int|bool|string x = A / x = B
CoerceLines(a, b, k) ==
    <<CASE k = 1 -> InsIntDeclaration(nX, Operands[a])
        [] k = 2 -> InsBoolDeclaration(nX, Operands[a])
        [] OTHER -> InsStringDeclaration(nX, Operands[a]),
      InsAssignment(nX, Operands[b])>>

CoerceScenarios ==
    {Scenario("coerce", a, b, k, 0, CoerceLines(a, b, k)) :
        a \in OperandIds, b \in OperandIds, k \in 1..3}

\* print(A B) (k = 1), print(A B) -> r (k = 2), print(B A B) (k = 3)
PrintLines(a, b, k) ==
    <<CASE k = 1 -> CallPrint(<<Operands[a], Operands[b]>>)
        [] k = 2 -> InsFunctionCall(PRINT, <<Operands[a], Operands[b]>>, Some(nR))
        [] OTHER -> CallPrint(<<Operands[b], Operands[a], Operands[b]>>)>>

PrintScenarios ==
    {Scenario("print", a, b, k, 0, PrintLines(a, b, k)) :
        a \in OperandIds, b \in OperandIds, k \in 1..3}

\* `int|bool|string name = value` for kind 1, 2, 3
DeclarationOfKind(kind, name, value) ==
    CASE kind = 1 -> InsIntDeclaration(name, value)
      [] kind = 2 -> InsBoolDeclaration(name, value)
      [] OTHER -> InsStringDeclaration(name, value)

\* Kj x = A (j = 4: no such line) / if 1 is 1 (b = 2: no such line) / Kk x = x / done
ShadowLines(a, b, k, j) ==
    <<IF j = 4 THEN InsNoOp ELSE DeclarationOfKind(j, nX, Operands[a]),
      IF b = 1 THEN InsIfValueIsValue(Lit(1), Lit(1)) ELSE InsNoOp,
      DeclarationOfKind(k, nX, nX),
      InsDone>>

ShadowScenarios ==
    {Scenario("shadow", a, b, k, j, ShadowLines(a, b, k, j)) :
        a \in OperandIds, b \in 1..2, k \in 1..3, j \in 1..4}

\* the operator characters of an expression value
OperatorChars == <<"*", "-", "<", ">">>

\* the value A op B, or A op B op 3: the text the lexer's collect_operators joins
ExpressionValue(a, b, k, j) ==
    Operands[a] \o <<OperatorChars[k]>> \o Operands[b]
        \o (IF j = 0 THEN <<>> ELSE <<OperatorChars[j]>> \o Lit(3))

\* print(E) / int x = E
ExpressionLines(a, b, k, j) ==
    <<CallPrint(<<ExpressionValue(a, b, k, j)>>),
      InsIntDeclaration(nX, ExpressionValue(a, b, k, j))>>

ExpressionScenarios ==
    {Scenario("expr", a, b, k, j, ExpressionLines(a, b, k, j)) :
        a \in OperandIds, b \in OperandIds, k \in 1..4, j \in 0..4}

\* int n = A-B / string s = n / int x = s
RoundTripLines(a, b) ==
    <<InsIntDeclaration(nN, Operands[a] \o <<"-">> \o Operands[b]),
      InsStringDeclaration(nS, nN),
      InsIntDeclaration(nX, nS)>>

RoundTripScenarios ==
    {Scenario("round", a, b, 0, 0, RoundTripLines(a, b)) :
        a \in 1..4, b \in 1..4}

\* names a program may try to create: x, the empty name, 5, a-b, int, v<, bool
CandidateNames ==
    <<nX, <<>>, Lit(5), <<"a", "-", "b">>, <<"i", "n", "t">>, <<"v", "<">>,
      <<"b", "o", "o", "l">>>>

\* the four creation sites of a variable called CandidateNames[a]
NameLines(a, k) ==
    CASE k = 1 -> \* int N = 1
            <<InsIntDeclaration(CandidateNames[a], Lit(1))>>
      [] k = 2 -> \* for N from 0 to 2 / done
            <<InsFromValueToValue(CandidateNames[a], Lit(0), Lit(2)), InsDone>>
      [] k = 3 -> \* fn f: int N / done / f(1)
            <<InsFunctionDeclaration(nF, <<[name |-> CandidateNames[a],
                                            variable_type |-> IntV(0)]>>),
              InsDone,
              InsFunctionCall(nF, <<Lit(1)>>, None)>>
      [] OTHER -> \* fn f / return 1 / done / f() -> N
            <<InsFunctionDeclaration(nF, <<>>),
              InsReturn(Lit(1)),
              InsDone,
              InsFunctionCall(nF, <<>>, Some(CandidateNames[a]))>>

NameScenarios ==
    {Scenario("name", a, 0, k, 0, NameLines(a, k)) :
        a \in 1..Len(CandidateNames), k \in 1..4}

\* the body of the outer loop of the nested-loop programs
NestBody(k, j) ==
    CASE k = 1 -> \* for w from 1 to J / done
            <<InsFromValueToValue(<<"w">>, Lit(1), Lit(j)), InsDone>>
      [] k = 2 -> \* if v is not 1 / for w from 1 to J / done / done
            <<InsIfValueIsNotValue(nV, Lit(1)),
              InsFromValueToValue(<<"w">>, Lit(1), Lit(j)), InsDone, InsDone>>
      [] k = 3 -> \* for v from 1 to J / int t = v / done
            <<InsFromValueToValue(nV, Lit(1), Lit(j)),
              InsIntDeclaration(nT, nV), InsDone>>
      [] OTHER -> \* int t = 0 / for w from 1 to J / t = w / done
            <<InsIntDeclaration(nT, Lit(0)),
              InsFromValueToValue(<<"w">>, Lit(1), Lit(j)),
              InsAssignment(nT, <<"w">>), InsDone>>

\* for v from A to B / body / done
NestLines(a, b, k, j) ==
    <<InsFromValueToValue(nV, Lit(a), Lit(b))>> \o NestBody(k, j) \o <<InsDone>>

NestScenarios ==
    {Scenario("nest", a, b, k, j, NestLines(a, b, k, j)) :
        a \in 0..MaxInt, b \in 0..MaxInt, k \in 1..4, j \in 0..MaxInt}

\* every program of at most MaxGenLen of these lines that the classifier accepts
GenAlphabet ==
    {InsFromValueToValue(nV, Lit(0), Lit(2)),
     InsIfValueIsValue(Lit(1), Lit(1)),
     InsIfValueIsNotValue(Lit(1), Lit(1)),
     InsDone,
     InsFunctionDeclaration(nF, <<>>),
     InsFunctionCall(nF, <<>>, Some(nR)),
     InsReturn(Lit(1)),
     InsFunctionCall(nG, <<Lit(1)>>, None),
     InsIntDeclaration(nT, Lit(1))}

GenScenarios ==
    {Scenario("gen", 0, 0, 0, 0, lines) :
        lines \in {l \in UNION {[1..n -> GenAlphabet] : n \in 1..MaxGenLen} :
                     ParseOk(l)}}

MiscPrograms ==
    << \* an unclosed loop
       <<InsFromValueToValue(nV, Lit(0), Lit(1)), CallPrint(<<nV>>)>>,
       \* fn f / for v from 0 to 3 / if v is 1 / return v / done / done / done /
       \* f() -> r / print(r)
       <<InsFunctionDeclaration(nF, <<>>),
         InsFromValueToValue(nV, Lit(0), Lit(3)),
         InsIfValueIsValue(nV, Lit(1)),
         InsReturn(nV),
         InsDone,
         InsDone,
         InsDone,
         InsFunctionCall(nF, <<>>, Some(nR)),
         CallPrint(<<nR>>)>>,
       \* an unknown function whose argument does not evaluate
       <<InsFunctionCall(nG, <<Lit(1), nT>>, None)>>,
       \* an unknown function with a target
       <<InsNoOp, InsFunctionCall(nG, <<Lit(1), Quoted(<<"x">>)>>, Some(nR))>>,
       \* print(1 "x")
       <<CallPrint(<<Lit(1), Quoted(<<"x">>)>>)>>,
       \* input("?") -> s / int x = s
       <<InsFunctionCall(INPUT, <<Quoted(<<"?">>)>>, Some(nS)),
         InsIntDeclaration(nX, nS)>>,
       \* fn f / done / f() / return 1
       <<InsFunctionDeclaration(nF, <<>>),
         InsDone,
         InsFunctionCall(nF, <<>>, None),
         InsReturn(Lit(1))>>,
       \* if 1 is 1 / for v from 2 to 2 / done / print("x") / done
       <<InsIfValueIsValue(Lit(1), Lit(1)),
         InsFromValueToValue(nV, Lit(2), Lit(2)),
         InsDone,
         CallPrint(<<Quoted(<<"x">>)>>),
         InsDone>>,
       \* fn f / int t = 7 / if 1 is 1 / return q / done / done / f() / print("x")
       <<InsFunctionDeclaration(nF, <<>>),
         InsIntDeclaration(nT, Lit(7)),
         InsIfValueIsValue(Lit(1), Lit(1)),
         InsReturn(<<"q">>),
         InsDone,
         InsDone,
         InsFunctionCall(nF, <<>>, None),
         CallPrint(<<Quoted(<<"x">>)>>)>>,
       \* fn f / int t = 7 / if 1 is 1 / return t / done / done / f() -> r / print(r)
       <<InsFunctionDeclaration(nF, <<>>),
         InsIntDeclaration(nT, Lit(7)),
         InsIfValueIsValue(Lit(1), Lit(1)),
         InsReturn(nT),
         InsDone,
         InsDone,
         InsFunctionCall(nF, <<>>, Some(nR)),
         CallPrint(<<nR>>)>>,
       \* fn f / int t = 7 / if 1 is 1 / return q / done / done / f() -> r
       <<InsFunctionDeclaration(nF, <<>>),
         InsIntDeclaration(nT, Lit(7)),
         InsIfValueIsValue(Lit(1), Lit(1)),
         InsReturn(<<"q">>),
         InsDone,
         InsDone,
         InsFunctionCall(nF, <<>>, Some(nR))>>,
       \* fn f / return 1 / done / int r = 0 / f() -> r / print(r)
       <<InsFunctionDeclaration(nF, <<>>),
         InsReturn(Lit(1)),
         InsDone,
         InsIntDeclaration(nR, Lit(0)),
         InsFunctionCall(nF, <<>>, Some(nR)),
         CallPrint(<<nR>>)>>,
       \* string s = "a" / input("?") -> s / print(s)
       <<InsStringDeclaration(nS, Quoted(<<"a">>)),
         InsFunctionCall(INPUT, <<Quoted(<<"?">>)>>, Some(nS)),
         CallPrint(<<nS>>)>>,
       \* fn f: int n / return n*2 / done / int n = 3 / f(n-1) -> x / print(x)
       <<InsFunctionDeclaration(nF, <<[name |-> nN, variable_type |-> IntV(0)]>>),
         InsReturn(nN \o <<"*">> \o Lit(2)),
         InsDone,
         InsIntDeclaration(nN, Lit(3)),
         InsFunctionCall(nF, <<nN \o <<"-">> \o Lit(1)>>, Some(nX)),
         CallPrint(<<nX>>)>>,
       \* fn f: int a, int b / print(a b) / done / int a = 1 / int b = 2 / f(b a)
       <<InsFunctionDeclaration(nF, <<[name |-> <<"a">>, variable_type |-> IntV(0)],
                                      [name |-> <<"b">>, variable_type |-> IntV(0)]>>),
         CallPrint(<<<<"a">>, <<"b">>>>),
         InsDone,
         InsIntDeclaration(<<"a">>, Lit(1)),
         InsIntDeclaration(<<"b">>, Lit(2)),
         InsFunctionCall(nF, <<<<"b">>, <<"a">>>>, None)>>,
       \* fn f / done / fn f / done
       <<InsFunctionDeclaration(nF, <<>>), InsDone,
         InsFunctionDeclaration(nF, <<>>), InsDone>>,
       \* if 1 is 1 / fn f / done / done / f()
       <<InsIfValueIsValue(Lit(1), Lit(1)),
         InsFunctionDeclaration(nF, <<>>),
         InsDone,
         InsDone,
         InsFunctionCall(nF, <<>>, None)>>,
       \* fn f: int n / print(n) / done / f("7")
       <<InsFunctionDeclaration(nF, <<[name |-> nN, variable_type |-> IntV(0)]>>),
         CallPrint(<<nN>>),
         InsDone,
         InsFunctionCall(nF, <<Quoted(<<"7">>)>>, None)>>,
       \* fn f / done / if 1 is 1 / fn f / print("x") / done / f() / done / f()
       <<InsFunctionDeclaration(nF, <<>>),
         InsDone,
         InsIfValueIsValue(Lit(1), Lit(1)),
         InsFunctionDeclaration(nF, <<>>),
         CallPrint(<<Quoted(<<"x">>)>>),
         InsDone,
         InsFunctionCall(nF, <<>>, None),
         InsDone,
         InsFunctionCall(nF, <<>>, None)>>,
       \* print(2-1*3)
       <<CallPrint(<<Lit(2) \o <<"-">> \o Lit(1) \o <<"*">> \o Lit(3)>>)>>,
       \* print("a-b")
       <<CallPrint(<<Quoted(<<"a", "-", "b">>)>>)>>,
       \* int v = 2 / for v from v to 5 / print(v) / done
       <<InsIntDeclaration(nV, Lit(2)),
         InsFromValueToValue(nV, nV, Lit(5)),
         CallPrint(<<nV>>),
         InsDone>>,
       \* int t = 2 / for v from t to 5 / print(v) / done
       <<InsIntDeclaration(nT, Lit(2)),
         InsFromValueToValue(nV, nT, Lit(5)),
         CallPrint(<<nV>>),
         InsDone>>,
       \* fn f / x = x*2 / print(x) / done / int x = 1 / f() / print(x) /
       \* if 1 is 1 / int x = 5 / f() / print(x) / done / print(x)
       <<InsFunctionDeclaration(nF, <<>>),
         InsAssignment(nX, nX \o <<"*">> \o Lit(2)),
         CallPrint(<<nX>>),
         InsDone,
         InsIntDeclaration(nX, Lit(1)),
         InsFunctionCall(nF, <<>>, None),
         CallPrint(<<nX>>),
         InsIfValueIsValue(Lit(1), Lit(1)),
         InsIntDeclaration(nX, Lit(5)),
         InsFunctionCall(nF, <<>>, None),
         CallPrint(<<nX>>),
         InsDone,
         CallPrint(<<nX>>)>>
    >>

MiscScenarios ==
    {Scenario("misc", 0, 0, k, 0, MiscPrograms[k]) : k \in 1..Len(MiscPrograms)}

\* src is the source of one of the programs above
IsScenario(sc) ==
    \/ sc \in ForScenarios
    \/ sc \in FactScenarios
    \/ sc \in IfScenarios
    \/ sc \in CmpScenarios
    \/ sc \in CoerceScenarios
    \/ sc \in PrintScenarios
    \/ sc \in ShadowScenarios
    \/ sc \in ExpressionScenarios
    \/ sc \in RoundTripScenarios
    \/ sc \in NameScenarios
    \/ sc \in NestScenarios
    \/ sc \in GenScenarios
    \/ sc \in MiscScenarios

\* what a read of one line of standard input can give
StdinLines ==
    {[eof |-> FALSE, text |-> <<"7">>], [eof |-> FALSE, text |-> <<"a">>],
     [eof |-> TRUE, text |-> <<>>]}

(* ------------------------------------------------------------------ *)
(* The run (engine.rs, State::execute)                                  *)
(* ------------------------------------------------------------------ *)
NoError == [msg |-> "", arg |-> <<>>, line |-> 0]

\* State::default() followed by the root frame and the boolean declarations
RootContext ==
    [frame |-> Root,
     variables |-> MapInsert(MapInsert(EmptyMap, nTrue, BoolV(TRUE)),
                             nFalse, BoolV(FALSE)),
     functions |-> EmptyMap]

Init ==
    /\ IsScenario(src)
    /\ prog = parse_lines(src.lines)
    /\ line = 0
    /\ frames = <<RootContext>>
    /\ status = "running"
    /\ err = NoError
    /\ out = <<>>
    /\ hist = <<>>

Running ==
    /\ status = "running"
    /\ Len(hist) < MaxSteps
    /\ Len(frames) <= MaxFrames

Fetch(op) == Running /\ line # Len(prog) /\ prog[line + 1].op = op

Cur == prog[line + 1]

\* the effect of one instruction with outcome r, and of the line += 1 after it
Commit(r) ==
    /\ frames' = r.frames
    /\ out' = out \o r.out
    /\ hist' = Append(hist, line)
    /\ IF r.st = "ok"
       THEN /\ line' = r.line + 1
            /\ status' = "running"
            /\ err' = NoError
       ELSE /\ line' = line
            /\ status' = r.st
            /\ err' = [msg |-> r.msg, arg |-> r.arg,
                       line |-> IF r.lined THEN line + 1 ELSE 0]
    /\ UNCHANGED <<prog, src>>

FromValueToValue ==
    /\ Fetch("FromValueToValue")
    /\ Commit(ExecFromValueToValue(frames, line, Cur))

IfValueIsValue ==
    /\ Fetch("IfValueIsValue")
    /\ Commit(ExecIf(frames, line, Cur, "true"))

IfValueIsNotValue ==
    /\ Fetch("IfValueIsNotValue")
    /\ Commit(ExecIf(frames, line, Cur, "false"))

FunctionDeclaration ==
    /\ Fetch("FunctionDeclaration")
    /\ Commit(ExecFunctionDeclaration(frames, line, Cur))

ReadsStdin(fs, ins) == ins.function = INPUT /\ ~is_some(found_function(fs, ins.function))

FunctionCall ==
    /\ Fetch("FunctionCall")
    /\ \E stdin \in StdinLines :
          /\ ReadsStdin(frames, Cur) \/ stdin.eof
          /\ Commit(ExecFunctionCall(frames, line, Cur, stdin))

Return ==
    /\ Fetch("Return")
    /\ Commit(ExecReturn(frames, line, Cur))

Done ==
    /\ Fetch("Done")
    /\ Commit(ExecDone(frames, line))

IntDeclaration ==
    /\ Fetch("IntDeclaration")
    /\ Commit(ExecDeclaration(frames, line, Cur, IntV(0)))

BoolDeclaration ==
    /\ Fetch("BoolDeclaration")
    /\ Commit(ExecDeclaration(frames, line, Cur, BoolV(FALSE)))

StringDeclaration ==
    /\ Fetch("StringDeclaration")
    /\ Commit(ExecDeclaration(frames, line, Cur, StrV(<<>>)))

Assignment ==
    /\ Fetch("Assignment")
    /\ Commit(ExecAssignment(frames, line, Cur))

NoOp ==
    /\ Fetch("NoOp")
    /\ Commit(ROk(frames, line))

\* the fetch loop ends when line = instructions.len()
Terminate ==
    /\ Running
    /\ line = Len(prog)
    /\ status' = "halted"
    /\ UNCHANGED <<prog, line, frames, err, out, hist, src>>

Next ==
    \/ FromValueToValue
    \/ IfValueIsValue
    \/ IfValueIsNotValue
    \/ FunctionDeclaration
    \/ FunctionCall
    \/ Return
    \/ Done
    \/ IntDeclaration
    \/ BoolDeclaration
    \/ StringDeclaration
    \/ Assignment
    \/ NoOp
    \/ Terminate

Spec == Init /\ [][Next]_vars

\* the programs of the termination analysis
LiveFamilies == {"nest", "for", "shadow", "name"}

LiveInit == Init /\ src.family \in LiveFamilies

\* the fetch loop runs the next instruction for as long as there is one
LiveSpec == LiveInit /\ [][Next]_vars /\ WF_vars(Next)

(* ------------------------------------------------------------------ *)
(* Properties                                                           *)
(* ------------------------------------------------------------------ *)
\* how many times the instruction at index ln was executed
Count(ln) == Cardinality({i \in DOMAIN hist : hist[i] = ln})

Executed(ln) == \E i \in DOMAIN hist : hist[i] = ln

Ended == status # "running"

NoFrameHolds(name) == \A i \in 1..Len(frames) : name \notin DOMAIN frames[i].variables

\* the run was ended by the "does not exist" error for the name, at the current line
NameError(name) ==
    /\ status = "error"
    /\ err = [msg |-> NOT_EXIST, arg |-> name, line |-> line + 1]

\* the index of the done that closes the loop of a "for" program
ForDoneLine == Len(ForBody(src.k)) + 1

\* the text printed by n iterations that print a, a + 1, ...
RECURSIVE LoopOutput(_, _)
LoopOutput(a, n) ==
    IF n = 0 THEN <<>>
    ELSE LoopOutput(a, n - 1) \o NatToString(a + n - 1) \o <<NEWLINE>>

\* C1: for integer literals a < b, the body of `for v from a to b` (which does not
\* assign v) runs exactly b - a times, and v observed in the body (printed by it)
\* is a, a + 1, ..., b - 1 in that order, one value per iteration.
C1_ForLoopIterations ==
    (src.family = "for" /\ src.a < src.b) =>
        /\ Count(1) <= src.b - src.a
        /\ Count(ForDoneLine) <= Count(1)
        /\ src.k \in {1, 2} => out = LoopOutput(src.a, Count(ForDoneLine - 1))
        /\ line > ForDoneLine =>
              /\ Count(1) = src.b - src.a
              /\ Count(ForDoneLine) = src.b - src.a

W1_LoopOfThreeIterationsClosed ==
    /\ src.family = "for" /\ src.k = 1 /\ src.a = 0 /\ src.b = 3
    /\ line > ForDoneLine
    /\ out = <<"0", NEWLINE, "1", NEWLINE, "2", NEWLINE>>

RECURSIVE Factorial(_)
Factorial(n) == IF n <= 1 THEN 1 ELSE n * Factorial(n - 1)

\* C2: the recursive fact(n), whose parameter has the same name in every
\* activation, never fails, never nests deeper than n calls, and delivers n! to the
\* caller's target variable x (120 for n = 5).
C2_RecursiveFactorial ==
    src.family = "fact" =>
        /\ status \in {"running", "halted"}
        /\ Len(frames) <= src.a + 2
        /\ status = "halted" =>
              /\ Len(frames) = 1
              /\ nX \in DOMAIN frames[1].variables
              /\ frames[1].variables[nX] = IntV(Factorial(src.a))

W2_FactOfFiveIs120 ==
    /\ src.family = "fact" /\ src.a = 5
    /\ status = "halted"
    /\ frames[1].variables[nX] = IntV(120)

\* C3: once the done of a conditional or of a loop has popped the block's frame, a
\* variable declared only in the block (and the loop variable) is in no frame, and
\* the later lookup of it ends the run with the "does not exist" name error.
C3_BlockVariablesUnreachable ==
    /\ (src.family = "if" /\ Executed(3)) =>
          /\ NoFrameHolds(nT)
          /\ Ended => NameError(nT)
    /\ (src.family = "for" /\ src.a < src.b /\ line > ForDoneLine) =>
          /\ NoFrameHolds(nT)
          /\ NoFrameHolds(nV)
          /\ Ended => \/ src.j = 1 /\ status = "halted"
                      \/ src.j = 2 /\ NameError(nT)
                      \/ src.j = 3 /\ NameError(nV)

W3_LookupAfterConditionalFails ==
    /\ src.family = "if"
    /\ hist = <<0, 1, 2, 3, 4>>
    /\ out = <<"5", NEWLINE>>
    /\ NameError(nT)

\* what the operand texts denote: the integer literals, the strings made of at least
\* one digit, and the canonical integer of every operand that has one
IntegerOperands == 1..4

DigitStringOperands == 7..10

OperandCanon == <<0, 1, 5, 12, 1, 0, 0, 7, 5, 5>>

DecimalText == <<<<"0">>, <<"1">>, <<"5">>, <<"1", "2">>>>

XValue == frames[1].variables[nX]

\* C4: assigning Integer n >= 0 into a String variable gives the decimal text of n;
\* assigning a String of digits into an Integer variable gives its parsed value;
\* assigning the non-numeric String "abc" into an Integer variable is the fatal
\* type error.  Len(hist) = 1: the declaration has run; Len(hist) = 2: the assignment.
C4_AssignmentCoercion ==
    src.family = "coerce" =>
        /\ (Len(hist) = 1 /\ src.k = 3 /\ src.a \in IntegerOperands) =>
              status = "running" /\ XValue = StrV(DecimalText[src.a])
        /\ (Len(hist) = 2 /\ src.k = 3 /\ src.b \in IntegerOperands) =>
              status # "error" /\ status # "panic" /\ XValue = StrV(DecimalText[src.b])
        /\ (Len(hist) = 1 /\ src.k = 1 /\ src.a \in DigitStringOperands) =>
              status = "running" /\ XValue = IntV(OperandCanon[src.a])
        /\ (Len(hist) = 2 /\ src.k = 1 /\ src.b \in DigitStringOperands) =>
              status # "error" /\ status # "panic" /\ XValue = IntV(OperandCanon[src.b])
        /\ (Len(hist) = 1 /\ src.k = 1 /\ src.a = 11) =>
              status = "error" /\ err.msg = CAST_ERROR
        /\ (Len(hist) = 2 /\ src.k = 1 /\ src.b = 11) =>
              status = "error" /\ err.msg = CAST_ERROR

W4_FiveAssignedOverText ==
    /\ src.family = "coerce" /\ src.k = 3 /\ src.a = 11 /\ src.b = 3
    /\ Len(hist) = 2
    /\ XValue = StrV(<<"5">>)

\* C5: for operands with a canonical integer (Integer, Boolean as 0/1, String of
\* digits), < and > give the comparison of the canonical integers, and `is` /
\* `is not` enter the block exactly when the canonical integers are equal / differ,
\* whatever the operands' kinds.
C5_ComparisonsThroughIntegers ==
    (Len(hist) = 1 /\ src.a \in 1..10 /\ src.b \in 1..10) =>
        /\ src.family = "cmp" =>
              /\ status \in {"running", "halted"}
              /\ frames[1].variables[nC] =
                    BoolV(IF src.k = 1 THEN OperandCanon[src.a] < OperandCanon[src.b]
                          ELSE OperandCanon[src.a] > OperandCanon[src.b])
        /\ src.family = "if" =>
              /\ status = "running"
              /\ IF (OperandCanon[src.a] = OperandCanon[src.b]) = (src.k = 1)
                 THEN Len(frames) = 2 /\ line = 1
                 ELSE Len(frames) = 1 /\ line = 4

W5_TrueGreaterThanTextZero ==
    /\ src.family = "cmp" /\ src.k = 2 /\ src.a = 5 /\ src.b = 7
    /\ Len(hist) = 1
    /\ frames[1].variables[nC] = BoolV(TRUE)

\* C6: a header `for v from a to b` with a >= b runs the body zero times: no
\* instruction between the header and its done is executed.
C6_ZeroTripLoopSkipsBody ==
    (src.family = "for" /\ src.a >= src.b) =>
        \A ln \in 1..(ForDoneLine - 1) : ~Executed(ln)

\* C7: the frame stack is never empty, its bottom frame is the Root frame, and no
\* other frame is a Root frame.
C7_RootFrameStays ==
    /\ Len(frames) >= 1
    /\ frames[1].frame.kind = "Root"
    /\ \A i \in 2..Len(frames) : frames[i].frame.kind # "Root"

W7_ReturnUnwoundToRoot ==
    /\ src.family = "misc" /\ src.k = 2
    /\ Executed(3)
    /\ Len(frames) = 1
    /\ out = <<"1", NEWLINE>>

\* C8: when the program counter reaches the end of the instructions while a frame
\* besides Root is open, the run ends in a fatal error, not normally.
C8_UnclosedBlockIsFatal ==
    (line = Len(prog) /\ Len(frames) > 1 /\ Ended) => status = "error"

\* C9: a done executed in the Root frame, and a return executed with no Function
\* frame on the stack, each end the run with their own error and leave the program
\* counter, the frame stack (with every variable and function map) and the output
\* as they were before the instruction.
C9_ControlErrorsLeaveState ==
    [][(Running /\ line # Len(prog)) =>
          /\ (Cur.op = "Done" /\ innermost_frame(frames).frame.kind = "Root") =>
                /\ status' = "error"
                /\ err' = [msg |-> "attempt to terminate root frame", arg |-> <<>>,
                           line |-> line + 1]
                /\ line' = line /\ frames' = frames /\ out' = out
          /\ (Cur.op = "Return" /\ FunctionFrame(frames) = 0) =>
                /\ status' = "error"
                /\ err' = [msg |-> "cannot return outside of a function",
                           arg |-> <<>>, line |-> line + 1]
                /\ line' = line /\ frames' = frames /\ out' = out]_vars

W9_DoneInRootAfterDeclaration ==
    /\ status = "error"
    /\ err.msg = "attempt to terminate root frame"
    /\ Len(frames) = 1
    /\ nT \in DOMAIN frames[1].variables

\* C10: a call of a name that no frame declares and that is not print or input ends
\* the run with the "unknown function" error, after its arguments were evaluated:
\* an argument that does not evaluate ends the run with its own error instead.
C10_UnknownFunction ==
    [][(Fetch("FunctionCall") /\ ~is_some(found_function(frames, Cur.function))
          /\ Cur.function \notin {PRINT, INPUT}) =>
          /\ frames' = frames /\ line' = line /\ out' = out
          /\ IF \A i \in 1..Len(Cur.values) :
                    evaluate_value(frames, Cur.values[i]).st = "ok"
             THEN /\ status' = "error"
                  /\ err' = [msg |-> "unknown function", arg |-> <<>>,
                             line |-> line + 1]
             ELSE /\ status' \in {"error", "panic"}
                  /\ err'.msg # "unknown function"]_vars

W10_UnknownFunctionReported ==
    /\ src.family = "misc" /\ src.k = 4
    /\ status = "error"
    /\ err = [msg |-> "unknown function", arg |-> <<>>, line |-> 2]

\* the printed text of each operand: decimal digits, true/false, the string's text
OperandText ==
    <<<<"0">>, <<"1">>, <<"5">>, <<"1", "2">>, nTrue, nFalse,
      <<"0">>, <<"7">>, <<"0", "5">>, <<"5">>, <<"a", "b", "c">>, <<>>>>

\* C11: print writes the printed texts of its arguments in argument order with no
\* separator (Integer as decimal, Boolean as true/false, String verbatim), then
\* exactly one newline; it is handled (no error) and gives no result, so a requested
\* target variable is not created.  print(1 "x") writes 1x and a newline.
C11_PrintConcatenates ==
    Len(hist) = 1 =>
        /\ src.family = "print" =>
              /\ status \in {"running", "halted"}
              /\ line = 1
              /\ frames = <<RootContext>>
              /\ out = (IF src.k = 3 THEN OperandText[src.b] ELSE <<>>)
                          \o OperandText[src.a] \o OperandText[src.b] \o <<NEWLINE>>
        /\ (src.family = "misc" /\ src.k = 5) =>
              /\ status \in {"running", "halted"}
              /\ frames = <<RootContext>>
              /\ out = <<"1", "x", NEWLINE>>

W11_PrintedOneX ==
    /\ src.family = "misc" /\ src.k = 5
    /\ status = "halted"
    /\ out = <<"1", "x", NEWLINE>>


\* C12: every fatal error is reported with the 1-based line number of the
\* instruction being executed (program counter + 1), type errors raised while
\* coercing a value on assignment or comparison included.
C12_ErrorsCarryLine ==
    status = "error" => err.line = line + 1


\* the instruction executed right after the i-th executed one belongs to the loop
\* (header 0, body, done) of a "for" program, and the i-th one is the loop's done
LoopsBackAt(i) ==
    /\ i \in 1..(Len(hist) - 1)
    /\ hist[i] = ForDoneLine
    /\ hist[i + 1] <= ForDoneLine

\* C13 as stated: when the done of a ForLoop frame closes an iteration that is not
\* the last, the next instruction executed is the header line itself (start_line).
C13_LoopBackReexecutesHeader ==
    (src.family = "for" /\ src.a < src.b) =>
        \A i \in DOMAIN hist : LoopsBackAt(i) => hist[i + 1] = 0

\* C13 amended: when the done of a ForLoop frame closes an iteration that is not the
\* last, the next instruction executed is the line after the header
\* (start_line + 1): the header is executed once per loop, so the start expression
\* is evaluated once; only the end expression is evaluated again, by the done.
C13_LoopBackSkipsHeader ==
    (src.family = "for" /\ src.a < src.b) =>
        /\ Count(0) <= 1
        /\ \A i \in DOMAIN hist : LoopsBackAt(i) => hist[i + 1] = 1
        /\ (hist # <<>> /\ hist[Len(hist)] = ForDoneLine /\ status = "running"
               /\ Len(frames) = 2) =>
              /\ line = 1
              /\ frames[2].frame.start_line = 0

W13_SecondIterationStarted ==
    /\ src.family = "for" /\ src.a = 0 /\ src.b = 2 /\ src.k = 1
    /\ hist = <<0, 1, 2, 1>>
    /\ out = <<"0", NEWLINE, "1", NEWLINE>>


\* C14: when a loop with start >= end is not entered, the frame stack after its
\* matching done has executed is the same as before the header: the done neither
\* pops nor re-iterates an enclosing frame, and raises no error.
C14_ZeroTripDoneLeavesFrames ==
    /\ (src.family = "for" /\ src.a >= src.b /\ Executed(ForDoneLine)) =>
          /\ status # "error"
          /\ Len(frames) = 1
    /\ (src.family = "misc" /\ src.k = 8 /\ hist = <<0, 1, 2>>) =>
          /\ status # "error"
          /\ Len(frames) = 2
          /\ frames[2].frame.kind = "IfStatement"


\* the frame stack and program counter after the done of the innermost ForLoop
\* frame, whose loop variable holds v and whose end expression has the value e
LoopDoneEffect(v, e) ==
    IF v + 1 >= e
    THEN /\ frames' = SubSeq(frames, 1, Len(frames) - 1)
         /\ line' = line + 1
    ELSE /\ frames' = [frames EXCEPT ![Len(frames)] =
                          [frame |-> frames[Len(frames)].frame,
                           variables |-> (frames[Len(frames)].frame.variable
                                             :> IntV(v + 1)),
                           functions |-> <<>>]]
         /\ line' = frames[Len(frames)].frame.start_line + 1

\* the innermost frame is a ForLoop frame that holds its loop variable as an Integer
AtLoopDone ==
    /\ Fetch("Done")
    /\ frames[Len(frames)].frame.kind = "ForLoop"
    /\ frames[Len(frames)].frame.variable \in DOMAIN frames[Len(frames)].variables
    /\ frames[Len(frames)].variables[frames[Len(frames)].frame.variable].kind
          = "Integer"
    /\ evaluate_value(frames, frames[Len(frames)].frame.end_value).st = "ok"
    /\ as_integer(evaluate_value(frames, frames[Len(frames)].frame.end_value).val).ok

\* C15: at the done of a ForLoop frame, if loop_var + 1 >= the re-evaluated end
\* expression the frame is popped; otherwise the run goes on with the loop variable
\* incremented by one and the frame's variable and function maps reduced to exactly
\* the binding of the loop variable: nothing the finished iteration declared remains.
C15_LoopEndClearsFrame ==
    [][AtLoopDone =>
          /\ status' = "running"
          /\ out' = out
          /\ LoopDoneEffect(
                 frames[Len(frames)].variables[frames[Len(frames)].frame.variable].n,
                 as_integer(evaluate_value(frames,
                                frames[Len(frames)].frame.end_value).val).n)]_vars

W15_IterationBindingsDiscarded ==
    /\ src.family = "for" /\ src.a = 0 /\ src.b = 2 /\ src.k = 4
    /\ hist = <<0, 1, 3, 4, 1>>
    /\ status = "running"
    /\ Len(frames) = 2
    /\ frames[2].variables = (nV :> IntV(1))
    /\ DOMAIN frames[2].functions = {nF}


\* the frames below index k, with the name bound to the value in the frame k - 1
BelowWithTarget(k, name, value) ==
    [i \in 1..(k - 1) |->
        IF i = k - 1
        THEN [frames[i] EXCEPT !.variables = (name :> value) @@ frames[i].variables]
        ELSE frames[i]]

\* a Return is about to execute with the nearest Function frame at index k
AtReturn(k) == Fetch("Return") /\ k = FunctionFrame(frames) /\ k > 0

C17_TargetCreateOrSet ==
    /\ (src.family = "misc" /\ src.k = 12 /\ Executed(1)) =>
          /\ status # "error"
          /\ frames[1].variables[nR] = IntV(1)
    /\ (src.family = "misc" /\ src.k = 13 /\ Len(hist) >= 2 /\ status # "panic") =>
          /\ status # "error"
          /\ frames[1].variables[nS] \in {StrV(<<"7">>), StrV(<<"a">>)}
          /\ out[1] = "?"


\* how many Function frames lie below the frame at index i
CallsBelow(i) == Cardinality({j \in 1..(i - 1) : frames[j].frame.kind = "Function"})

\* C18: the argument of a parameter is evaluated before the parameter's binding is
\* created in the new Function frame: an argument that names the caller's variable
\* of the parameter's own name reads the caller's value.  In the recursion of
\* fact(a), the activation at call depth d holds n = a - d + 1, the value of the
\* caller's n - 1, never the new parameter's zero value; f(n-1) called from Root
\* with n = 3 binds the parameter n to 2.
C18_ArgumentBeforeBinding ==
    /\ src.family = "fact" =>
          \A i \in 1..Len(frames) : frames[i].frame.kind = "Function" =>
              /\ nN \in DOMAIN frames[i].variables
              /\ frames[i].variables[nN] = IntV(src.a - CallsBelow(i))
              /\ src.a - CallsBelow(i) >= 1
    /\ (src.family = "misc" /\ src.k = 14) =>
          /\ status \in {"running", "halted"}
          /\ \A i \in 2..Len(frames) : frames[i].frame.kind = "Function" =>
                /\ frames[i].variables = (nN :> IntV(2))
                /\ frames[1].variables[nN] = IntV(3)
          /\ status = "halted" => frames[1].variables[nX] = IntV(4)

W18_ThreeActivations ==
    /\ src.family = "fact" /\ src.a = 3
    /\ Len(frames) = 4
    /\ frames[2].variables[nN] = IntV(3)
    /\ frames[3].variables[nN] = IntV(2)
    /\ frames[4].variables[nN] = IntV(1)


\* C19: in a call with several parameters every argument is evaluated against the
\* caller's bindings as they were before the call: f(b a), where f declares the
\* parameters a, b and the caller holds a = 1, b = 2, binds a to 2 and b to 1.
C19_ArgumentsReadCaller ==
    (src.family = "misc" /\ src.k = 15) =>
        /\ status \in {"running", "halted"}
        /\ (Len(frames) = 2 /\ frames[2].frame.kind = "Function") =>
              frames[2].variables = (<<"a">> :> IntV(2)) @@ (<<"b">> :> IntV(1))
        /\ status = "halted" => out = <<"2", "1", NEWLINE>>


\* an if header is about to execute and both of its sides have comparable values
AtIfHeader ==
    /\ Fetch("IfValueIsValue") \/ Fetch("IfValueIsNotValue")
    /\ evaluate_value(frames, Cur.left_value).st = "ok"
    /\ evaluate_value(frames, Cur.right_value).st = "ok"
    /\ eq(evaluate_value(frames, Cur.left_value).val,
          evaluate_value(frames, Cur.right_value).val) # "panic"

\* the predicate of the header holds: equal for `is`, different for `is not`
IfPredicateHolds ==
    (eq(evaluate_value(frames, Cur.left_value).val,
        evaluate_value(frames, Cur.right_value).val) = "true")
        = (Cur.op = "IfValueIsValue")

\* the program is `if A is B` / `if A is not B` with a predicate that does not hold
SkippedIfProgram ==
    /\ src.family = "if"
    /\ src.a \in 1..10 /\ src.b \in 1..10
    /\ (OperandCanon[src.a] = OperandCanon[src.b]) # (src.k = 1)

\* C20: an if header whose predicate holds pushes exactly one (empty) conditional
\* frame and the next instruction is the first line of the block; when it does not
\* hold no frame is pushed and the next instruction is the one after the block's
\* done (last_line + 1), so the done of a skipped block is never executed.
C20_IfEntersOrSkips ==
    [][/\ AtIfHeader =>
         (/\ status' = "running"
          /\ out' = out
          /\ IF IfPredicateHolds
             THEN /\ frames' = Append(frames, [frame |-> IfStatement,
                                               variables |-> <<>>,
                                               functions |-> <<>>])
                  /\ line' = line + 1
             ELSE /\ frames' = frames
                  /\ Cur.last_line > line
                  /\ prog[Cur.last_line + 1].op = "Done"
                  /\ line' = Cur.last_line + 1)
       /\ SkippedIfProgram =>
              \A i \in DOMAIN hist' : hist'[i] \notin {1, 2, 3}]_vars

W20_BlockSkipped ==
    /\ src.family = "if" /\ src.a = 1 /\ src.b = 2 /\ src.k = 1
    /\ hist = <<0, 4>>
    /\ Len(frames) = 1
    /\ NameError(nT)


\* C21: a done on a Function frame pops that frame; when the call requested a target
\* variable (and no Return supplied it) the run ends with the "function did not
\* return valid value" error at that line; otherwise the run continues at the
\* instruction after the call site.
C21_DoneOfFunction ==
    [][(Fetch("Done") /\ frames[Len(frames)].frame.kind = "Function") =>
          /\ frames' = SubSeq(frames, 1, Len(frames) - 1)
          /\ out' = out
          /\ IF frames[Len(frames)].frame.target_variable # <<>>
             THEN /\ status' = "error"
                  /\ err' = [msg |-> "function did not return valid value",
                             arg |-> <<>>, line |-> line + 1]
             ELSE /\ status' = "running"
                  /\ line' = frames[Len(frames)].frame.caller_line + 1]_vars

W21_NoValueForTarget ==
    /\ src.family = "gen"
    /\ hist = <<0, 2, 1>>
    /\ status = "error"
    /\ err.msg = "function did not return valid value"
    /\ Len(frames) = 1


\* C22: a function declaration registers the function in the innermost frame's
\* function map only, is the fatal "function already declared" error when that
\* frame already holds the name, and continues after the function's done
\* (last_line + 1) without executing the body.  So a function declared inside a
\* conditional cannot be called once the conditional's frame is popped (the call is
\* an unknown function), and declaring it again in the next iteration of a loop is
\* not a duplicate.
C22_FunctionDeclaration ==
    [][/\ Fetch("FunctionDeclaration") =>
            IF Cur.name \in DOMAIN frames[Len(frames)].functions
            THEN /\ status' = "error"
                 /\ err' = [msg |-> "function already declared", arg |-> <<>>,
                            line |-> line + 1]
            ELSE /\ status' = "running"
                 /\ out' = out
                 /\ frames' = [frames EXCEPT ![Len(frames)].functions =
                                  (Cur.name :> [line |-> line,
                                                arguments |-> Cur.arguments]) @@ @]
                 /\ Cur.last_line > line
                 /\ prog[Cur.last_line + 1].op = "Done"
                 /\ line' = Cur.last_line + 1
       /\ (src.family = "misc" /\ src.k = 17 /\ status' # "running") =>
             /\ hist' = <<0, 1, 3, 4>>
             /\ err' = [msg |-> "unknown function", arg |-> <<>>, line |-> 5]
       /\ (src.family = "for" /\ src.k = 4 /\ src.a < src.b) =>
             /\ err'.msg # "function already declared"
             /\ line' > ForDoneLine => Count(1)' = src.b - src.a]_vars

W22_DuplicateInSameFrame ==
    /\ src.family = "misc" /\ src.k = 16
    /\ hist = <<0, 2>>
    /\ status = "error"
    /\ err = [msg |-> "function already declared", arg |-> <<>>, line |-> 3]


\* the integer a short text of digits denotes
CanonOfText(text) ==
    CASE text = <<"0">> -> 0
      [] text = <<"1">> -> 1
      [] text = <<"5">> -> 5
      [] text = <<"7">> -> 7
      [] text = <<"0", "5">> -> 5
      [] text = <<"1", "2">> -> 12
      [] OTHER -> 0 - 1

\* the canonical integer of a value, -1 when it has none
CanonOf(v) ==
    CASE v.kind = "Integer" -> v.n
      [] v.kind = "Boolean" -> IF v.b THEN 1 ELSE 0
      [] OTHER -> CanonOfText(v.s)

\* the value v coerced to the declared kind 1 (int), 2 (bool) or 3 (string)
CoercedTo(kind, v) ==
    CASE kind = 1 -> IntV(CanonOf(v))
      [] kind = 2 -> BoolV(CanonOf(v) # 0)
      [] v.kind = "Str" -> v
      [] OTHER -> StrV(CHOOSE text \in {<<"0">>, <<"1">>, <<"5">>, <<"7">>, <<"1", "2">>} :
                           CanonOfText(text) = CanonOf(v))

\* C23: a declaration evaluates its initializer before it creates the binding.  With
\* no x in any frame `K x = x` ends with the "does not exist" error and creates no
\* binding; with x only in an outer frame the new x of the innermost frame starts
\* with the outer x's value coerced to the declared kind; with x already in the
\* innermost frame the declaration is the "variable already exists" error.
C23_InitializerBeforeBinding ==
    (src.family = "shadow" /\ hist = <<0, 1, 2>>) =>
        IF src.j = 4
        THEN /\ NameError(nX)
             /\ NoFrameHolds(nX)
        ELSE IF src.b = 2
        THEN /\ status = "error"
             /\ err = [msg |-> "variable already exists", arg |-> <<>>, line |-> 3]
             /\ DOMAIN frames[1].variables = {nX, nTrue, nFalse}
        ELSE (CanonOf(frames[1].variables[nX]) >= 0
                 \/ (src.k = 3 /\ frames[1].variables[nX].kind = "Str")) =>
                /\ status = "running"
                /\ Len(frames) = 2
                /\ frames[2].variables
                      = (nX :> CoercedTo(src.k, frames[1].variables[nX]))

W23_OuterValueCoerced ==
    /\ src.family = "shadow" /\ src.a = 8 /\ src.b = 1 /\ src.k = 1 /\ src.j = 3
    /\ hist = <<0, 1, 2>>
    /\ frames[1].variables[nX] = StrV(<<"7">>)
    /\ frames[2].variables[nX] = IntV(7)


\* C24: assignment between a String holding non-numeric text and a non-String value
\* is the fatal type error in both directions: an Integer or Boolean assigned into a
\* String variable that holds "abc" is rejected, as "abc" assigned into an Integer
\* or Boolean variable is.
C24_CastErrorBothWays ==
    (src.family = "coerce" /\ Len(hist) = 2) =>
        /\ (src.k = 3 /\ src.a = 11 /\ src.b \in 1..6) =>
              status = "error" /\ err.msg = CAST_ERROR
        /\ (src.k \in {1, 2} /\ src.b = 11) =>
              status = "error" /\ err.msg = CAST_ERROR


\* C25: a comparison (if ... is, if ... is not, <, >) in which one operand is a
\* String holding non-numeric text ends in the fatal type error, the outcome of the
\* corresponding assignment.
C25_ComparisonCastError ==
    (src.family \in {"if", "cmp"} /\ Len(hist) = 1
        /\ (\/ src.a = 11 /\ src.b \in 1..10
            \/ src.b = 11 /\ src.a \in 1..10)) =>
        /\ status = "error"
        /\ err.msg = CAST_ERROR


\* the smaller of two numbers
Smaller(m, n) == IF m <= n THEN m ELSE n

\* C26: the kind of a binding is fixed when the binding is created: no step of a run
\* (assignment, parameter passing, loop increment, re-insertion of the loop variable
\* on loop back) changes the kind of a binding that exists before and after it; a
\* parameter declared int and passed the String "7" is the Integer 7.
C26_KindIsFixed ==
    [][/\ \A i \in 1..Smaller(Len(frames), Len(frames')) :
            \A name \in DOMAIN frames[i].variables \cap DOMAIN frames'[i].variables :
                frames'[i].variables[name].kind = frames[i].variables[name].kind
       /\ (src.family = "misc" /\ src.k = 18 /\ Len(frames') = 2) =>
             frames'[2].variables = (nN :> IntV(7))
       /\ (src.family = "coerce" /\ Len(hist') >= 1 /\ nX \in DOMAIN frames'[1].variables) =>
             frames'[1].variables[nX].kind
                = (CASE src.k = 1 -> "Integer" [] src.k = 2 -> "Boolean"
                     [] OTHER -> "Str")]_vars

W26_TextAssignedIntoBoolean ==
    /\ src.family = "coerce" /\ src.k = 2 /\ src.a = 6 /\ src.b = 8
    /\ Len(hist) = 2
    /\ XValue = BoolV(TRUE)


\* an accumulator of the fold: its canonical integer and whether it is a Boolean
Accumulator(boolean, n) == [boolean |-> boolean, n |-> n]

\* one operator (1 *, 2 -, 3 <, 4 >) applied between the accumulator and an integer
FoldStep(acc, op, n) ==
    CASE op = 1 -> Accumulator(acc.boolean,
                               IF acc.boolean /\ acc.n * n # 0 THEN 1 ELSE acc.n * n)
      [] op = 2 -> Accumulator(acc.boolean,
                               IF acc.boolean /\ acc.n - n # 0 THEN 1 ELSE acc.n - n)
      [] op = 3 -> Accumulator(TRUE, IF acc.n < n THEN 1 ELSE 0)
      [] OTHER -> Accumulator(TRUE, IF acc.n > n THEN 1 ELSE 0)

\* the left-to-right fold of A op_k B, or of (A op_k B) op_j 3
LeftFold(a, b, k, j) ==
    IF j = 0 THEN FoldStep(Accumulator(FALSE, a), k, b)
    ELSE FoldStep(FoldStep(Accumulator(FALSE, a), k, b), j, 3)

AccumulatorText(acc) ==
    IF acc.boolean
    THEN (IF acc.n = 1 THEN <<"t", "r", "u", "e">> ELSE <<"f", "a", "l", "s", "e">>)
    ELSE int_to_string(acc.n)

\* C27: an operator expression over integer operands evaluates to the strict
\* left-to-right fold with no precedence (2-1*3 gives 3, not -1); < and > replace
\* the accumulator by the Boolean result of the integer comparison, and a later
\* operator is applied to that Boolean accumulator.  Len(hist) = 1: print(E) has run.
C27_LeftToRightFold ==
    Len(hist) = 1 =>
        /\ (src.family = "expr" /\ src.a \in IntegerOperands
                /\ src.b \in IntegerOperands) =>
              /\ status = "running"
              /\ out = AccumulatorText(LeftFold(OperandCanon[src.a], OperandCanon[src.b],
                                                src.k, src.j)) \o <<NEWLINE>>
        /\ (src.family = "misc" /\ src.k = 20) =>
              /\ status \in {"running", "halted"}
              /\ out = <<"3", NEWLINE>>

W27_TwoMinusOneTimesThree ==
    /\ src.family = "misc" /\ src.k = 20
    /\ Len(hist) = 1
    /\ out = <<"3", NEWLINE>>


\* int(a) * int(b) for operator 1 and int(a) - int(b) for operator 2
CanonArithmetic(k, m, n) == IF k = 1 THEN m * n ELSE m - n

\* C28: for operands a and b with a canonical integer, the canonical integer of the
\* result of a*b is int(a) * int(b) and that of a-b is int(a) - int(b), whatever
\* the kind of the left operand.  Len(hist) = 1: print(a op b) has run.
C28_ArithmeticIgnoresLeftKind ==
    (src.family = "expr" /\ src.j = 0 /\ src.k \in 1..2 /\ Len(hist) = 1
        /\ src.a \in 1..10 /\ src.b \in 1..10) =>
        /\ evaluate_value(frames, ExpressionValue(src.a, src.b, src.k, 0)).st = "ok"
        /\ as_integer(evaluate_value(frames,
                                     ExpressionValue(src.a, src.b, src.k, 0)).val)
              = [ok |-> TRUE,
                 n |-> CanonArithmetic(src.k, OperandCanon[src.a], OperandCanon[src.b])]


\* C29: for every integer n a program computes, negative results of a subtraction
\* included, assigning Integer n into a String variable and that String into an
\* Integer variable gives n back and raises no error.  Len(hist) = 2: the String
\* variable was assigned; Len(hist) = 3: the Integer variable was assigned from it.
C29_RoundTripOverAllIntegers ==
    src.family = "round" =>
        /\ Len(hist) = 2 =>
              /\ status = "running"
              /\ as_integer(frames[1].variables[nS])
                    = [ok |-> TRUE, n |-> OperandCanon[src.a] - OperandCanon[src.b]]
        /\ Len(hist) = 3 =>
              /\ status \notin {"error", "panic"}
              /\ XValue = IntV(OperandCanon[src.a] - OperandCanon[src.b])


\* contents of quoted values, with and without operator characters
QuotedContents ==
    {<<>>, <<"a", "b">>, <<"a", "-", "b">>, <<"2", "*", "3">>, <<"<">>, <<"a", ">">>}

\* C30: a value wrapped in matching double quotes evaluates to a String holding
\* exactly the text between the quotes, for every content, contents with an
\* operator character (*, -, <, >) such as "a-b" included; print("a-b") writes a-b.
C30_QuotedTextVerbatim ==
    /\ \A text \in QuotedContents :
          evaluate_value(frames, Quoted(text)) = ValOk(StrV(text))
    /\ (src.family = "misc" /\ src.k = 21 /\ Len(hist) = 1) =>
          /\ status \in {"running", "halted"}
          /\ out = <<"a", "-", "b", NEWLINE>>


\* C31: when a for header enters its loop, the first value of the loop variable is
\* the value start_expr had when the header's start < end test was evaluated,
\* before the loop frame was pushed, also when start_expr names a variable of the
\* enclosing scope with the loop variable's name.
C31_LoopStartsAtTestedValue ==
    [][(Fetch("FromValueToValue") /\ status' = "running"
          /\ Len(frames') = Len(frames) + 1) =>
          /\ evaluate_value(frames, Cur.start).st = "ok"
          /\ as_integer(evaluate_value(frames, Cur.start).val).ok
          /\ frames'[Len(frames')].variables[Cur.value]
                = IntV(as_integer(evaluate_value(frames, Cur.start).val).n)]_vars


\* the innermost frame that holds the name, 0 when no frame holds it
HolderOf(name) ==
    IF NoFrameHolds(name) THEN 0
    ELSE CHOOSE i \in 1..Len(frames) :
             /\ name \in DOMAIN frames[i].variables
             /\ \A j \in (i + 1)..Len(frames) : name \notin DOMAIN frames[j].variables

\* a name evaluates to a copy of the binding in the innermost frame holding it
LookupInnermost ==
    \A i \in 1..Len(frames) : \A name \in DOMAIN frames[i].variables :
        evaluate_value(frames, name) = ValOk(frames[HolderOf(name)].variables[name])

\* C32: lookup and Assign act on the binding in the innermost frame that holds the
\* name, searching the whole frame stack: a Function frame is no barrier, so a
\* function body reads and modifies unshadowed variables of the frames below it,
\* and the binding it sees is the one of the call stack at run time.
C32_DynamicScopeLookup ==
    [][/\ LookupInnermost'
       /\ (Fetch("Assignment") /\ status' = "running") =>
             /\ HolderOf(Cur.name) # 0
             /\ frames' = [frames EXCEPT ![HolderOf(Cur.name)].variables[Cur.name] =
                              set(@, evaluate_value(frames, Cur.value).val).val]]_vars

W32_CallerBlockVariableDoubled ==
    /\ src.family = "misc" /\ src.k = 24
    /\ Len(frames) = 3 /\ frames[3].frame.kind = "Function"
    /\ frames[2].variables[nX] = IntV(10)
    /\ frames[1].variables[nX] = IntV(2)


\* a name that is empty or made only of digits, that contains an operator
\* character, or that is a reserved type keyword
InvalidName(name) ==
    \/ \A i \in 1..Len(name) : name[i] \in {"0", "1", "2", "3", "4", "5", "6", "7", "8", "9"}
    \/ \E i \in 1..Len(name) : name[i] \in {"*", "-", "<", ">"}
    \/ name \in {<<"i", "n", "t">>, <<"b", "o", "o", "l">>,
                 <<"s", "t", "r", "i", "n", "g">>}

\* C33: no frame's variable map has a key that is empty or made only of digits,
\* that contains an operator character, or that is a reserved type keyword: an
\* attempt to create such a variable (declaration, entered loop variable,
\* parameter, call target) ends with the fatal 'invalid variable name' error.
C33_VariableNamesValid ==
    /\ \A i \in 1..Len(frames) : \A name \in DOMAIN frames[i].variables :
          ~InvalidName(name)
    /\ (src.family = "name" /\ InvalidName(CandidateNames[src.a]) /\ Ended) =>
          /\ status = "error"
          /\ err.msg = "invalid variable name"

W33_OperatorNameAsCallTarget ==
    /\ src.family = "name" /\ src.a = 4 /\ src.k = 4
    /\ hist = <<0, 3, 1>>
    /\ status = "error"
    /\ err.msg = "invalid variable name"


\* a program made only of declarations, assignments, conditionals, for loops with
\* integer-literal bounds and dones, in which no assignment names a loop variable
LoopLiteralProgram ==
    /\ \A i \in 1..Len(prog) :
          /\ prog[i].op \in {"IntDeclaration", "BoolDeclaration", "StringDeclaration",
                             "Assignment", "IfValueIsValue", "IfValueIsNotValue",
                             "FromValueToValue", "Done"}
          /\ prog[i].op = "FromValueToValue" =>
                /\ prog[i].start # <<>> /\ is_numeric(prog[i].start)
                /\ prog[i].end # <<>> /\ is_numeric(prog[i].end)
    /\ \A i \in 1..Len(prog) : \A j \in 1..Len(prog) :
          (prog[i].op = "Assignment" /\ prog[j].op = "FromValueToValue") =>
              prog[i].name # prog[j].value

\* C34: every program made only of declarations, assignments, conditionals and for
\* loops with integer-literal bounds, in which no loop body assigns a loop variable
\* and there are no function calls, eventually halts (normal end or fatal error).
C34_LoopProgramsHalt == [](LoopLiteralProgram => <>Ended)

W34_NestedLoopsRanOut ==
    /\ src.family = "nest" /\ src.a = 0 /\ src.b = 3 /\ src.k = 1 /\ src.j = 3
    /\ LoopLiteralProgram
    /\ Count(2) = 6
    /\ Ended

====
